---- MODULE Spec2Model ----
(***************************************************************************)
(* Model of the transactional-write / event-delivery core of               *)
(* athebyme/gomarket-platform:                                             *)
(*   - pkg/tx: pgxTxManager.Do (unit of work)                              *)
(*   - product-service ProductService (write-then-publish glue)            *)
(*   - product-service KafkaMessaging (publisher, consumer loops)          *)
(*   - product-service RedisCache (tenant-scoped cache keys)               *)
(***************************************************************************)
EXTENDS Integers, Sequences, FiniteSets, TLC

VARIABLES
    \* ---- pgxTxManager.Do ----
    doPc,        \* position of the running Do call
    txState,     \* state of the pgx transaction handle of the running call
    txCalls,     \* calls issued on the pool / transaction by the running call
    fnResult,    \* what fn returned (or "none" while it has not run)
    fnCalls,     \* number of times fn was invoked by the running call
    doResult,    \* what Do returned
    doWarnings,  \* rollback failures printed by Do (line 140)
    doCount,     \* number of Do calls started so far
    txPending,   \* rows written through the transaction handle, not yet committed
    fnWrites,    \* rows fn wrote through the storage during this call of Do
    \* ---- storage engine ----
    db,          \* committed rows: product -> version (0: no row)
    \* ---- ProductService ----
    svcPc,       \* position of the running service call
    svcArg,      \* the running call: operation, product, whether ids are non-empty, version
    svcErr,      \* the local err of the running call (from Do / SaveProduct / DeleteProduct)
    svcPublishErr, \* what Publish returned to the running call
    svcResult,   \* what the call returned
    svcLog,      \* log lines written by the running call
    svcCount,    \* number of service calls started so far
    \* ---- broker ----
    brokerLog,   \* topic -> partition -> messages in log order
    nextUuid,    \* source of uuid.New(): the next fresh id
    \* ---- cache ----
    cache,       \* raw redis key -> cached value
    cacheCall,   \* the cache operation called last, with its arguments
    \* ---- KafkaMessaging subscriptions ----
    subImpl,     \* subscription -> the adapter that created it ("none": not subscribed)
    subAutoCommit, \* subscription -> config.AutoCommit
    subTenant,   \* subscription -> the tenant filter SubscribeForTenant wrapped
    handlerFails, \* subscription -> how many invocations per message its handler fails
    handlers,    \* subscriptions with a handler in k.handlers
    consumers,   \* subscriptions with a consumer in k.consumers
    closedConsumers, \* subscriptions whose kafka.Consumer was closed
    loopPc,      \* subscription -> position of its consumeMessages goroutine
    curMsg,      \* subscription -> msg, the message being processed
    attempt,     \* subscription -> the retry loop's attempt variable (part_009)
    offsets,     \* subscription -> partition -> messages polled so far
    acked,       \* subscription -> ids below the offsets stored by consumer.CommitMessage
    handlerLog,  \* subscription -> the handler's invocations, in order
    unsubPc,     \* subscription -> position of a call of its unsubscribe closure
    ctxDone,     \* the context given to Subscribe is cancelled
    lastEvent,   \* subscription -> kind of the event its last Poll returned
    closePc,     \* position of a call of KafkaMessaging.Close
    \* ---- topic administration ----
    brokerTopics, \* the topics that exist at the broker
    adminCall,   \* the administrative call made last, with what it returned
    adminCount,  \* number of administrative calls made so far
    \* ---- Do called from inside fn ----
    innerCalls,  \* calls the inner Do issued on the pool / its transaction
    innerWrites, \* rows the inner fn wrote through the storage
    \* ---- RedisCache.DeleteByPattern, round trip by round trip ----
    scanStore,   \* the raw keys the redis server holds
    scanCall,     \* the DeleteByPattern call made last: what it found and sent
    \* ---- StoragePort.BeginTx / CommitTx / RollbackTx ----
    stImpl,      \* the storage adapter the caller holds
    stCtx,       \* the context the caller uses: what BeginTx returned
    stTxState,   \* state of the transaction pool.Begin opened for BeginTx
    stPending,   \* rows written through that transaction, not yet committed
    stCall,      \* the call made last on the adapter and what it returned
    stCount,      \* number of calls made on the adapter
    \* ---- GetProduct concurrent with UpdateProduct / DeleteProduct ----
    getPc,       \* GetProduct call -> its position
    getValue,    \* GetProduct call -> the row version it read from storage
    mutPc,       \* mutating call -> its position
    mutOp,        \* mutating call -> "Update" or "Delete"
    \* ---- the registry locks of KafkaMessaging ----
    hMutex,      \* handlersMutex: the writer holding it and the readers
    cMutex,      \* consumersMutex: the call holding it
    subPc,       \* subscription -> position of its Subscribe call
    subErr,       \* subscription -> what its Subscribe call returned
    \* ---- PublishBatch ----
    producerQueue, \* the messages Produce accepted, in the order of the calls
    batchCall,      \* the PublishBatch call that returned
    \* ---- the worker's shutdown ----
    wkPc,        \* the signal goroutine of main
    wgCount,     \* the sync.WaitGroup counter
    wkExited     \* the subscriber goroutines that have returned

txVars == <<doPc, txState, txCalls, fnResult, fnCalls, doResult, doWarnings, doCount,
            txPending, fnWrites>>
svcVars == <<svcPc, svcArg, svcErr, svcPublishErr, svcResult, svcLog, svcCount>>
brokerVars == <<brokerLog, nextUuid>>
cacheVars == <<cache, cacheCall>>
registryVars == <<subImpl, subAutoCommit, subTenant, handlerFails, handlers, consumers,
                  closedConsumers>>
loopVars == <<loopPc, curMsg, attempt, offsets, acked, handlerLog, lastEvent>>
subVars == <<registryVars, loopVars, unsubPc, ctxDone, closePc>>

adminVars == <<brokerTopics, adminCall, adminCount>>
reentrantVars == <<innerCalls, innerWrites>>
scanVars == <<scanStore, scanCall>>
storageVars == <<stImpl, stCtx, stTxState, stPending, stCall, stCount>>
raceVars == <<getPc, getValue, mutPc, mutOp>>
lockVars == <<hMutex, cMutex, subPc, subErr>>
batchVars == <<producerQueue, batchCall>>
workerVars == <<wkPc, wgCount, wkExited>>
adapterVars == <<scanVars, storageVars, raceVars, lockVars, batchVars,
                 workerVars>>
restVars == <<adminVars, reentrantVars, adapterVars>>

vars == <<txVars, db, svcVars, brokerVars, cacheVars, subVars, restVars>>

(***************************************************************************)
(* Bounds                                                                  *)
(***************************************************************************)
MaxDoCalls == 3
MaxSvcCalls == 2
NumPartitions == 2
MaxMessages == 2
MaxSharedMessages == 1
MaxCommands == 2
MaxAdminCalls == 3
MaxScanKeys == 130
MaxOtherKeys == 1
MaxStorageCalls == 5
MaxBatchLen == 3

Products == {"p1", "p2"}

(***************************************************************************)
(* Error values.  A Go error is modelled as the chain of its messages,     *)
(* outermost first; fmt.Errorf("p: %w", e) prepends p to the chain of e.   *)
(* nil is the empty chain.                                                 *)
(***************************************************************************)
NilErr == <<>>

Wrap(prefix, e) == <<prefix>> \o e

BeginErr == <<"begin refused">>
CommitErr == <<"commit refused">>
RollbackErr == <<"rollback refused">>
ErrTxClosed == <<"tx is closed">>

\* the errors fn may return
FnErrors == {<<"E1">>, <<"E2">>}

\* results of a Go call: normal return of an error value, or a panic
Ret(e) == [kind |-> "return", err |-> e]
Panic == [kind |-> "panic", err |-> <<"panic in fn">>]
NoResult == [kind |-> "none", err |-> NilErr]

\* outcomes of fn as seen by Do
FnOutcomes == {Ret(NilErr)} \cup {Ret(e) : e \in FnErrors} \cup {Panic}

(***************************************************************************)
(* pgx.Tx as seen by Do: Commit and Rollback on the handle.                *)
(* A call on a handle that is no longer open returns ErrTxClosed and       *)
(* changes nothing.  A failing Rollback still ends the transaction (the    *)
(* connection is dropped and the server aborts it).  A failing Commit      *)
(* leaves the transaction either still open or already aborted.            *)
(***************************************************************************)
CommitOutcomes == {"ok", "failOpen", "failAborted"}

TxCall(op, applied, err) == [op |-> op, applied |-> applied, err |-> err]

TxRollback_AlwaysActs(st, ok) ==
    [state |-> "RolledBack",
     call |-> TxCall("Rollback", TRUE, IF ok THEN NilErr ELSE RollbackErr)]

TxRollback(st, ok) ==
    IF st = "Open"
    THEN [state |-> "RolledBack",
          call |-> TxCall("Rollback", TRUE, IF ok THEN NilErr ELSE RollbackErr)]
    ELSE [state |-> st, call |-> TxCall("Rollback", FALSE, ErrTxClosed)]

TxCommit(st, outcome) ==
    IF st = "Open"
    THEN CASE outcome = "ok" ->
                [state |-> "Committed", call |-> TxCall("Commit", TRUE, NilErr)]
           [] outcome = "failOpen" ->
                [state |-> "Open", call |-> TxCall("Commit", FALSE, CommitErr)]
           [] OTHER ->
                [state |-> "RolledBack", call |-> TxCall("Commit", FALSE, CommitErr)]
    ELSE [state |-> st, call |-> TxCall("Commit", FALSE, ErrTxClosed)]

(***************************************************************************)
(* Storage engine: committed rows, and the rows written through an open    *)
(* transaction handle, which become visible only when it commits.          *)
(***************************************************************************)
\* a write is <<product, version>>; version 0 deletes the row
ApplyWrites(rows, writes) ==
    [p \in Products |->
        IF \E w \in writes : w[1] = p
        THEN (CHOOSE w \in writes : w[1] = p)[2]
        ELSE rows[p]]

\* A context is the set of keys under which it holds a pgx.Tx.  Do stores
\* the transaction under tx.txKey; ProductStorage looks it up under
\* tx.GetKey(), PostgresRepository under its own contextKey "transaction".
TxKey == "tx.txKey"
RepositoryTxKey == "transaction"
Background == {}

\* txCtx := context.WithValue(ctx, txKey, tx)
ChildCtx(ctx) == ctx \cup {TxKey}

StorageImpls == {"ProductStorage", "PostgresRepository"}

\* the key getTx reads
GetTxKey(impl) ==
    IF impl = "ProductStorage" THEN TxKey ELSE RepositoryTxKey

\* getExecutor: the transaction found in the context, else the pool
GetExecutor(impl, ctx) ==
    IF GetTxKey(impl) \in ctx THEN "tx" ELSE "pool"

\* a storage write made with this executor: held by the open transaction,
\* or committed at once on a pool connection
StorageWrite(executor, rows, pending, writes) ==
    IF executor = "tx"
    THEN [db |-> rows, pending |-> pending \cup writes]
    ELSE [db |-> ApplyWrites(rows, writes), pending |-> pending]

(***************************************************************************)
(* pgxTxManager.Do                                                         *)
(***************************************************************************)
\* entry of Do(ctx, fn): nothing has been called yet
DoEnter ==
    /\ doCount' = doCount + 1
    /\ doPc' = "begin"
    /\ txState' = "Idle"
    /\ txCalls' = <<>>
    /\ txPending' = {}
    /\ fnWrites' = {}
    /\ fnResult' = NoResult
    /\ fnCalls' = 0
    /\ doResult' = NoResult
    /\ doWarnings' = 0

\* a caller outside the service starts Do(ctx, fn) with an arbitrary fn
DoStart ==
    /\ doPc \in {"idle", "returned"}
    /\ svcPc \in {"idle", "done"}
    /\ doCount < MaxDoCalls
    /\ DoEnter
    /\ UNCHANGED <<db, svcVars, brokerVars, cacheVars, subVars, restVars>>

\* where Do continues after pool.Begin returned
AfterBegin_NoShortCircuit(ok) ==
    [pc |-> "fn", result |-> NoResult]

AfterBegin(ok) ==
    IF ok THEN [pc |-> "fn", result |-> NoResult]
    ELSE [pc |-> "returned", result |-> Ret(Wrap("tx.Begin failed", BeginErr))]

\* tx, err := m.pool.Begin(ctx); on error return the wrapped error
DoBegin ==
    /\ doPc = "begin"
    /\ \E ok \in BOOLEAN :
         /\ txState' = IF ok THEN "Open" ELSE txState
         /\ txCalls' = Append(txCalls,
                              TxCall("Begin", ok, IF ok THEN NilErr ELSE BeginErr))
         /\ doPc' = AfterBegin(ok).pc
         /\ doResult' = AfterBegin(ok).result
    /\ UNCHANGED <<fnResult, fnCalls, doWarnings, doCount, txPending, fnWrites>>
    /\ UNCHANGED <<db, svcVars, brokerVars, cacheVars, subVars, restVars>>

\* err = fn(txCtx), for an arbitrary fn: it writes some rows through the
\* transaction handle and then returns nil or an error, or panics
DoFn ==
    /\ doPc = "fn"
    /\ svcPc \in {"idle", "done"}
    /\ \E out \in FnOutcomes, w \in SUBSET Products, impl \in StorageImpls :
         LET writes == {<<p, doCount>> : p \in w}
             r == StorageWrite(GetExecutor(impl, ChildCtx(Background)), db,
                               txPending, writes)
         IN /\ fnResult' = out
            /\ fnWrites' = writes
            /\ txPending' = r.pending
            /\ db' = r.db
    /\ fnCalls' = fnCalls + 1
    /\ doPc' = "afterFn"
    /\ UNCHANGED <<txState, txCalls, doResult, doWarnings, doCount>>
    /\ UNCHANGED <<svcVars, brokerVars, cacheVars, subVars, restVars>>

\* the value Do returns when fn returned the error e and the explicit
\* Rollback returned rbErr
ReturnAfterFnError_Overrides(e, rbErr) == IF rbErr # NilErr THEN rbErr ELSE e

ReturnAfterFnError(e, rbErr) == e

\* the value Do returns when fn returned nil and Commit returned err
ReturnAfterCommit_Swallows(err) == NilErr

ReturnAfterCommit(err) ==
    IF err # NilErr THEN Wrap("tx.Commit failed", err) ELSE NilErr

\* the part of Do after fn: explicit Rollback on error, Commit on nil;
\* a panic unwinds straight to the deferred function
DoAfterFn ==
    /\ doPc = "afterFn"
    /\ CASE fnResult.kind = "panic" ->
              /\ doResult' = Panic
              /\ UNCHANGED <<txState, txCalls, doWarnings, db>>
         [] fnResult.kind = "return" /\ fnResult.err # NilErr ->
              \E ok \in BOOLEAN :
                LET r == TxRollback(txState, ok) IN
                  /\ txState' = r.state
                  /\ txCalls' = Append(txCalls, r.call)
                  /\ doWarnings' = IF r.call.err # NilErr THEN doWarnings + 1
                                   ELSE doWarnings
                  /\ doResult' = Ret(ReturnAfterFnError(fnResult.err, r.call.err))
                  /\ db' = db
         [] OTHER ->
              \E outcome \in CommitOutcomes :
                LET r == TxCommit(txState, outcome) IN
                  /\ txState' = r.state
                  /\ txCalls' = Append(txCalls, r.call)
                  /\ doWarnings' = doWarnings
                  /\ doResult' = Ret(ReturnAfterCommit(r.call.err))
                  /\ db' = IF r.call.applied THEN ApplyWrites(db, txPending) ELSE db
    /\ doPc' = "deferred"
    /\ UNCHANGED <<fnResult, fnCalls, doCount, txPending, fnWrites>>
    /\ UNCHANGED <<svcVars, brokerVars, cacheVars, subVars, restVars>>

\* the calls the deferred function issues on the transaction
DeferredCall_Nothing(st, ok) == [state |-> st, calls |-> <<>>]

DeferredCall(st, ok) ==
    LET r == TxRollback(st, ok) IN [state |-> r.state, calls |-> <<r.call>>]

\* defer func() { _ = tx.Rollback(ctx) }()
DoDeferred ==
    /\ doPc = "deferred"
    /\ \E ok \in BOOLEAN :
         LET r == DeferredCall(txState, ok) IN
           /\ txState' = r.state
           /\ txCalls' = txCalls \o r.calls
    /\ doPc' = "returned"
    /\ UNCHANGED <<fnResult, fnCalls, doResult, doWarnings, doCount, txPending,
                   fnWrites>>
    /\ UNCHANGED <<db, svcVars, brokerVars, cacheVars, subVars, restVars>>

\* A whole call m.Do(ctx, fn) whose fn returns e, from pool.Begin to the
\* deferred function: the calls it issues, whether its transaction was
\* committed, and what it returns
DoCall(beginOk, e, outcome, rbOk, deferredOk) ==
    LET begin == TxCall("Begin", beginOk, IF beginOk THEN NilErr ELSE BeginErr)
        body == IF e # NilErr THEN TxRollback("Open", rbOk)
                ELSE TxCommit("Open", outcome)
        deferred == DeferredCall(body.state, deferredOk)
    IN IF AfterBegin(beginOk).pc = "returned"
       THEN [calls |-> <<begin>>, committed |-> FALSE,
             result |-> AfterBegin(beginOk).result]
       ELSE [calls |-> <<begin, body.call>> \o deferred.calls,
             committed |-> body.call.op = "Commit" /\ body.call.applied,
             result |-> Ret(IF e # NilErr
                            THEN ReturnAfterFnError(e, body.call.err)
                            ELSE ReturnAfterCommit(body.call.err))]

\* the errors the inner fn may return
InnerFnErrors == {NilErr, <<"E1">>}

\* err = fn(txCtx) for an fn that calls m.Do(txCtx, inner) itself: the inner
\* Do runs to its end inside fn, the inner fn writes some rows through the
\* storage with the context the inner Do gave it, then fn returns or panics
DoFnReentrant ==
    /\ doPc = "fn"
    /\ svcPc \in {"idle", "done"}
    /\ \E out \in FnOutcomes, w \in SUBSET Products, impl \in StorageImpls,
          beginOk \in BOOLEAN, e \in InnerFnErrors,
          outcome \in CommitOutcomes, rbOk \in BOOLEAN :
         LET inner == DoCall(beginOk, e, outcome, rbOk, TRUE)
             writes == IF beginOk THEN {<<p, doCount>> : p \in w} ELSE {}
             r == StorageWrite(GetExecutor(impl, ChildCtx(ChildCtx(Background))),
                               db, {}, writes)
         IN /\ fnResult' = out
            /\ innerCalls' = inner.calls
            /\ innerWrites' = writes
            /\ db' = IF inner.committed THEN ApplyWrites(r.db, r.pending)
                     ELSE r.db
    /\ fnCalls' = fnCalls + 1
    /\ doPc' = "afterFn"
    /\ UNCHANGED <<txState, txCalls, doResult, doWarnings, doCount, txPending,
                   fnWrites>>
    /\ UNCHANGED <<svcVars, brokerVars, cacheVars, subVars, adminVars, adapterVars>>

TxInit ==
    /\ doPc = "idle"
    /\ txState = "Idle"
    /\ txCalls = <<>>
    /\ txPending = {}
    /\ fnWrites = {}
    /\ fnResult = NoResult
    /\ fnCalls = 0
    /\ doResult = NoResult
    /\ doWarnings = 0
    /\ doCount = 0

(***************************************************************************)
(* Broker and publisher (kafka.go)                                         *)
(***************************************************************************)
Topics == {"product-events", "dead-letter"}
Partitions == 1..NumPartitions
Keys == {"k1", "k2"}
NoKey == ""

\* the broker's partitioner: a hash of the (non-empty) key
KeyHash(key) == IF key = "k1" THEN 0 ELSE 1
KeyPartition(key) == (KeyHash(key) % NumPartitions) + 1

\* the partitions a message with this key may be appended to
\* (Partition: kafka.PartitionAny; Key set only when key != "")
TargetPartitions_IgnoresKey(key) == Partitions

TargetPartitions(key) ==
    IF key # NoKey THEN {KeyPartition(key)} ELSE Partitions

\* messageToKafkaMessage: caller headers first, then the service headers
MessageToKafkaMessage(topic, message, key, headers, uuid) ==
    [id |-> uuid,
     topic |-> topic,
     key |-> key,
     value |-> message,
     headers |-> headers \o << <<"message_id", uuid>>, <<"timestamp", uuid>> >>]

\* the broker log after Produce accepted msg for partition part
Produce(log, msg, part) ==
    [log EXCEPT ![msg.topic][part] = Append(@, msg)]

BrokerInit ==
    /\ brokerLog = [t \in Topics |-> [p \in Partitions |-> <<>>]]
    /\ nextUuid = 1

\* every message of a topic, over all partitions
TopicMessages(t) ==
    UNION {{brokerLog[t][p][i] : i \in 1..Len(brokerLog[t][p])} : p \in Partitions}

(***************************************************************************)
(* ProductService: CreateProduct, UpdateProduct, DeleteProduct             *)
(***************************************************************************)
Event(type, arg) == [event_type |-> type, product |-> arg.product, call |-> arg.call]

NoArg == [op |-> "none", product |-> "p1", valid |-> TRUE, call |-> 0]

SvcOk == Ret(NilErr)

\* an API caller invokes one of the mutating operations
SvcCall ==
    /\ svcPc \in {"idle", "done"}
    /\ doPc \in {"idle", "returned"}
    /\ svcCount < MaxSvcCalls
    /\ \E op \in {"Create", "Update", "Delete"}, p \in Products, valid \in BOOLEAN :
         svcArg' = [op |-> op, product |-> p, valid |-> valid, call |-> svcCount + 1]
    /\ svcCount' = svcCount + 1
    /\ svcPc' = "start"
    /\ svcErr' = NilErr
    /\ svcPublishErr' = NilErr
    /\ svcResult' = NoResult
    /\ svcLog' = <<>>
    /\ UNCHANGED <<txVars, db, brokerVars, cacheVars, subVars, restVars>>

\* s.messaging.Publish(ctx, "product-events", eventData): the broker log and
\* the error returned, for each way the producer can answer
PublishOutcomes(type) ==
    {[err |-> <<"produce refused">>, log |-> brokerLog]}
    \cup
    {[err |-> NilErr,
      log |-> Produce(brokerLog,
                      MessageToKafkaMessage("product-events", Event(type, svcArg),
                                            NoKey, <<>>, nextUuid),
                      part)] : part \in TargetPartitions(NoKey)}

\* CreateProduct, line 67: err := s.txManager.Do(ctx, func ...)
SvcCreateDo ==
    /\ svcPc = "start"
    /\ svcArg.op = "Create"
    /\ DoEnter
    /\ svcPc' = "inDo"
    /\ UNCHANGED <<svcArg, svcErr, svcPublishErr, svcResult, svcLog, svcCount>>
    /\ UNCHANGED <<db, brokerVars, cacheVars, subVars, restVars>>

\* the fn CreateProduct passes to Do: SaveProduct(txCtx, product) on the
\* transaction handle carried by txCtx
DoFnSaveProduct ==
    /\ doPc = "fn"
    /\ svcPc = "inDo"
    /\ \E ok \in BOOLEAN :
         IF ok
         THEN /\ LET writes == {<<svcArg.product, svcArg.call>>}
                      r == StorageWrite(
                               GetExecutor("ProductStorage", ChildCtx(Background)),
                               db, txPending, writes)
                  IN /\ fnWrites' = writes
                     /\ txPending' = r.pending
                     /\ db' = r.db
              /\ fnResult' = Ret(NilErr)
              /\ svcLog' = Append(svcLog, "info: saved inside transaction")
         ELSE /\ UNCHANGED <<txPending, fnWrites, db>>
              /\ fnResult' = Ret(Wrap("repository.SaveProduct failed",
                                      <<"failed to save product", "exec refused">>))
              /\ svcLog' = Append(svcLog, "error: save inside transaction")
    /\ fnCalls' = fnCalls + 1
    /\ doPc' = "afterFn"
    /\ UNCHANGED <<txState, txCalls, doResult, doWarnings, doCount>>
    /\ UNCHANGED <<svcPc, svcArg, svcErr, svcPublishErr, svcResult, svcCount>>
    /\ UNCHANGED <<brokerVars, cacheVars, subVars, restVars>>

\* where CreateProduct continues once Do returned err
CreateAfterDo_PublishAnyway(err) ==
    [pc |-> "publish", result |-> NoResult,
     log |-> IF err # NilErr THEN <<"error: transaction">> ELSE <<"info: committed">>]

CreateAfterDo(err) ==
    IF err # NilErr
    THEN [pc |-> "done", result |-> Ret(Wrap("transaction failed", err)),
          log |-> <<"error: transaction">>]
    ELSE [pc |-> "publish", result |-> NoResult, log |-> <<"info: committed">>]

\* CreateProduct, lines 90-96
SvcCreateAfterDo ==
    /\ svcPc = "inDo"
    /\ doPc = "returned"
    /\ svcErr' = doResult.err
    /\ LET n == CreateAfterDo(doResult.err) IN
         /\ svcPc' = n.pc
         /\ svcResult' = n.result
         /\ svcLog' = svcLog \o n.log
    /\ UNCHANGED <<svcArg, svcPublishErr, svcCount>>
    /\ UNCHANGED <<txVars, db, brokerVars, cacheVars, subVars, restVars>>

\* what CreateProduct returns after Publish returned publishErr
CreateReturn_FailsOnPublishError(publishErr) ==
    IF publishErr # NilErr THEN Ret(Wrap("publish failed", publishErr)) ELSE SvcOk

CreateReturn(publishErr) == SvcOk

\* CreateProduct, lines 98-130: publish the event, log the outcome, return
SvcCreatePublish ==
    /\ svcPc = "publish"
    /\ svcArg.op = "Create"
    /\ \E o \in PublishOutcomes("product_created") :
         /\ brokerLog' = o.log
         /\ svcPublishErr' = o.err
         /\ svcLog' = Append(svcLog, IF o.err # NilErr THEN "error: publish"
                                     ELSE "info: published")
         /\ svcResult' = CreateReturn(o.err)
    /\ nextUuid' = nextUuid + 1
    /\ svcPc' = "done"
    /\ UNCHANGED <<svcArg, svcErr, svcCount>>
    /\ UNCHANGED <<txVars, db, cacheVars, subVars, restVars>>

\* where a storage write made without Do leaves UpdateProduct / DeleteProduct
AfterWrite(err, what) ==
    IF err # NilErr
    THEN [pc |-> "done", result |-> Ret(Wrap(what, err)), log |-> <<"error: write">>]
    ELSE [pc |-> "invalidate", result |-> NoResult, log |-> <<>>]

\* UpdateProduct, lines 199-212 / DeleteProduct, lines 237-248: validation,
\* then the write on the pool (no transaction in ctx: it commits at once)
SvcWrite ==
    /\ svcPc = "start"
    /\ svcArg.op \in {"Update", "Delete"}
    /\ IF ~svcArg.valid
       THEN /\ svcResult' = Ret(<<"product ID and tenant ID cannot be empty">>)
            /\ svcPc' = "done"
            /\ UNCHANGED <<db, svcErr, svcLog>>
       ELSE \E ok \in BOOLEAN :
              LET err == IF ok THEN NilErr
                         ELSE IF svcArg.op = "Update"
                              THEN <<"failed to save product", "exec refused">>
                              ELSE <<"failed to delete product", "exec refused">>
                  n == AfterWrite(err, IF svcArg.op = "Update"
                                       THEN "failed to update product"
                                       ELSE "failed to delete product")
              IN /\ db' = IF ok
                          THEN ApplyWrites(db, {<<svcArg.product,
                                                  IF svcArg.op = "Update"
                                                  THEN svcArg.call ELSE 0>>})
                          ELSE db
                 /\ svcErr' = err
                 /\ svcPc' = n.pc
                 /\ svcResult' = n.result
                 /\ svcLog' = svcLog \o n.log
    /\ UNCHANGED <<svcArg, svcPublishErr, svcCount>>
    /\ UNCHANGED <<txVars, brokerVars, cacheVars, subVars, restVars>>

(***************************************************************************)
(* RedisCache.  A string is the sequence of its tokens; fmt.Sprintf        *)
(* concatenates.  The cached value carries the tenant it was written for   *)
(* (the tenant_id field of the marshalled product) and the row version.    *)
(***************************************************************************)
Str(tok) == <<tok>>
EmptyStr == <<>>
Colon == <<":">>

\* buildKey: "tenant:<tenantID>:<key>", or the bare key for an empty tenantID
BuildKey(key, tenantID) ==
    IF tenantID # EmptyStr
    THEN <<"tenant">> \o Colon \o tenantID \o Colon \o key
    ELSE key

\* redis glob matching as SCAN ... MATCH pattern does it; "*" is the only
\* metacharacter the model's strings contain
RECURSIVE Match(_, _)
Match(pattern, s) ==
    IF pattern = <<>> THEN s = <<>>
    ELSE IF Head(pattern) = "*"
         THEN Match(Tail(pattern), s) \/ (s # <<>> /\ Match(pattern, Tail(s)))
         ELSE s # <<>> /\ Head(s) = Head(pattern) /\ Match(Tail(pattern), Tail(s))

HasSuffixStar(key) == key # <<>> /\ key[Len(key)] = "*"

\* client.Set / client.Del on raw keys
CacheSet(c, rawKey, value) ==
    [k \in DOMAIN c \cup {rawKey} |-> IF k = rawKey THEN value ELSE c[k]]

CacheDel(c, rawKeys) == [k \in DOMAIN c \ rawKeys |-> c[k]]

\* DeleteByPattern: scan for the pattern, delete what the scan returns
DeleteByPattern(c, pattern) ==
    CacheDel(c, {k \in DOMAIN c : Match(pattern, k)})

SetWithTenant(c, key, value, tenantID) == CacheSet(c, BuildKey(key, tenantID), value)

DeleteWithTenant(c, key, tenantID) == CacheDel(c, {BuildKey(key, tenantID)})

DeleteByPatternWithTenant(c, pattern, tenantID) ==
    DeleteByPattern(c, BuildKey(pattern, tenantID))

\* ProductService.InvalidateCache
InvalidateCache(c, key, tenantID) ==
    IF key = EmptyStr
    THEN DeleteByPattern(c, <<"tenant">> \o Colon \o tenantID \o Colon \o <<"*">>)
    ELSE IF HasSuffixStar(key)
         THEN DeleteByPatternWithTenant(c, key, tenantID)
         ELSE DeleteWithTenant(c, key, tenantID)

EmptyCache == [k \in {} |-> 0]

\* the keys ProductService builds
SvcTenant == Str("A")
SvcSupplier == Str("S")

ProductCacheKey(tenantID, supplierID, productID) ==
    <<"product">> \o Colon \o tenantID \o Colon \o supplierID \o Colon \o productID

ListCacheKey(tenantID, page) ==
    <<"products">> \o Colon \o <<"list">> \o Colon \o tenantID \o Colon \o page

ListPattern == <<"products">> \o Colon \o <<"list">> \o Colon \o <<"*">>

CacheValue(tenantID, version) == [tenant |-> tenantID, version |-> version]

(***************************************************************************)
(* ProductService, continued                                               *)
(***************************************************************************)
\* UpdateProduct, lines 214-215 / DeleteProduct, lines 250-253
SvcInvalidate ==
    /\ svcPc = "invalidate"
    /\ LET key == ProductCacheKey(SvcTenant, SvcSupplier, Str(svcArg.product))
           c1 == DeleteWithTenant(cache, key, SvcTenant)
       IN cache' = IF svcArg.op = "Delete"
                   THEN DeleteByPatternWithTenant(c1, ListPattern, SvcTenant)
                   ELSE c1
    /\ svcPc' = "publish"
    /\ UNCHANGED <<svcArg, svcErr, svcPublishErr, svcResult, svcLog, svcCount>>
    /\ UNCHANGED <<txVars, db, brokerVars, cacheCall, subVars, restVars>>

\* UpdateProduct, lines 217-233 / DeleteProduct, lines 255-271: the result
\* of Publish is discarded
SvcPublish ==
    /\ svcPc = "publish"
    /\ svcArg.op \in {"Update", "Delete"}
    /\ \E o \in PublishOutcomes(IF svcArg.op = "Update" THEN "product_updated"
                                ELSE "product_deleted") :
         /\ brokerLog' = o.log
         /\ svcPublishErr' = o.err
    /\ nextUuid' = nextUuid + 1
    /\ svcResult' = SvcOk
    /\ svcPc' = "done"
    /\ UNCHANGED <<svcArg, svcErr, svcLog, svcCount>>
    /\ UNCHANGED <<txVars, db, cacheVars, subVars, restVars>>

\* GetProduct run to completion: cache hit, or read the row and cache it
SvcGetProduct ==
    /\ svcPc \in {"idle", "done"}
    /\ doPc \in {"idle", "returned"}
    /\ \E p \in Products :
         LET key == ProductCacheKey(SvcTenant, SvcSupplier, Str(p))
             raw == BuildKey(key, SvcTenant)
         IN /\ raw \notin DOMAIN cache
            /\ db[p] # 0
            /\ cache' = SetWithTenant(cache, key, CacheValue(SvcTenant, db[p]),
                                      SvcTenant)
    /\ UNCHANGED <<txVars, db, svcVars, brokerVars, cacheCall, subVars, restVars>>

\* ListProducts without filters, run to completion: cache the first page
SvcListProducts ==
    /\ svcPc \in {"idle", "done"}
    /\ doPc \in {"idle", "returned"}
    /\ LET key == ListCacheKey(SvcTenant, Str("1")) IN
         /\ BuildKey(key, SvcTenant) \notin DOMAIN cache
         /\ cache' = SetWithTenant(cache, key, CacheValue(SvcTenant, 0), SvcTenant)
    /\ UNCHANGED <<txVars, db, svcVars, brokerVars, cacheCall, subVars, restVars>>

\* json.Marshal of the event struct the mutations publish: product_id and
\* supplier_id are inside payload
MarshalEvent(e) ==
    [event_type |-> e.event_type, tenant_id |-> SvcTenant,
     payload |-> [product_id |-> Str(e.product), supplier_id |-> SvcSupplier]]

\* price and inventory events, published by other services
ExternalEvents ==
    {[event_type |-> t, tenant_id |-> SvcTenant,
      payload |-> [product_id |-> Str(p)]]
       : t \in {"product_price_updated", "product_inventory_updated"},
         p \in Products}

\* the events the worker can be handed: delivery is at least once
DeliverableEvents ==
    {MarshalEvent(m.value) : m \in TopicMessages("product-events")}
        \cup ExternalEvents

\* json.Unmarshal into the struct of eventHandler: ProductID is read from
\* the top-level field product_id
UnmarshalEvent(j) ==
    [EventType |-> j.event_type, TenantID |-> j.tenant_id,
     ProductID |-> IF "product_id" \in DOMAIN j THEN j.product_id ELSE EmptyStr,
     Payload |-> j.payload]

ChangeEvents == {"product_updated", "product_deleted",
                 "product_price_updated", "product_inventory_updated"}

\* the product id eventHandler uses for the event
HookProductID(ev) ==
    IF ev.EventType \in {"product_updated", "product_deleted"}
    THEN ev.ProductID
    ELSE ev.Payload.product_id

\* cacheKey := fmt.Sprintf("product:%s", productID)
HookCacheKey(productID) == <<"product">> \o Colon \o productID

EventCall(tenantID, key, productID) ==
    [op |-> "eventHandler", tenant |-> tenantID, key |-> key, product |-> productID]

\* eventHandler of the worker, for a change event: InvalidateCache with the
\* key it builds; the error is discarded
WorkerEventHandler ==
    /\ \E j \in DeliverableEvents :
         /\ j.event_type \in ChangeEvents
         /\ LET ev == UnmarshalEvent(j)
                key == HookCacheKey(HookProductID(ev))
            IN /\ cache' = InvalidateCache(cache, key, ev.TenantID)
               /\ cacheCall' = EventCall(ev.TenantID, key, j.payload.product_id)
    /\ UNCHANGED <<txVars, db, svcVars, brokerVars, subVars, restVars>>

SvcInit ==
    /\ svcPc = "idle"
    /\ svcArg = NoArg
    /\ svcErr = NilErr
    /\ svcPublishErr = NilErr
    /\ svcResult = NoResult
    /\ svcLog = <<>>
    /\ svcCount = 0

(***************************************************************************)
(* The cache called on behalf of several tenants                           *)
(***************************************************************************)
\* tenant ids as they arrive in the X-Tenant-ID header: no validation
CacheTenants == {EmptyStr, Str("A"), Str("B"), Str("*")}
CacheKeys == {Str("x"), Str("y")}
CachePatterns == {Str("*"), <<"x", "*">>}

CacheCall(op, tenantID, key) == [op |-> op, tenant |-> tenantID, key |-> key]

\* RedisCache.SetWithTenant
CacheSetWithTenant ==
    \E t \in CacheTenants, key \in CacheKeys :
        /\ cache' = SetWithTenant(cache, key, CacheValue(t, 1), t)
        /\ cacheCall' = CacheCall("SetWithTenant", t, key)
        /\ UNCHANGED <<txVars, db, svcVars, brokerVars, subVars, restVars>>

\* RedisCache.DeleteWithTenant
CacheDeleteWithTenant ==
    \E t \in CacheTenants, key \in CacheKeys :
        /\ cache' = DeleteWithTenant(cache, key, t)
        /\ cacheCall' = CacheCall("DeleteWithTenant", t, key)
        /\ UNCHANGED <<txVars, db, svcVars, brokerVars, subVars, restVars>>

\* RedisCache.DeleteByPatternWithTenant
CacheDeleteByPatternWithTenant ==
    \E t \in CacheTenants, pattern \in CachePatterns :
        /\ cache' = DeleteByPatternWithTenant(cache, pattern, t)
        /\ cacheCall' = CacheCall("DeleteByPatternWithTenant", t, pattern)
        /\ UNCHANGED <<txVars, db, svcVars, brokerVars, subVars, restVars>>

\* ProductService.InvalidateCache
CacheInvalidate ==
    \E t \in CacheTenants, key \in CacheKeys \cup CachePatterns \cup {EmptyStr} :
        /\ cache' = InvalidateCache(cache, key, t)
        /\ cacheCall' = CacheCall("InvalidateCache", t, key)
        /\ UNCHANGED <<txVars, db, svcVars, brokerVars, subVars, restVars>>

CacheInit ==
    /\ cache = EmptyCache
    /\ cacheCall = CacheCall("none", EmptyStr, EmptyStr)

(***************************************************************************)
(* KafkaMessaging: Publish, Subscribe, consumeMessages, unsubscribe.       *)
(* Two adapters exist: kafka.go ("kafka") and the older one of part_009    *)
(* ("part009").  Every subscription has its own consumer; a consumer reads *)
(* each partition in log order from the end of the log at Subscribe        *)
(* ("auto.offset.reset": "latest").                                        *)
(***************************************************************************)
maxRetries == 3

Subs == {"s1", "s2"}
\* the subscription followed alone, message by message
SoloSubs == {"s1"}
Impls == {"kafka", "part009"}
ConsumedTopic == "product-events"

\* a handler under test fails its first k invocations for every message
FailPlans == 0..maxRetries
HandlerErr == <<"handler failed">>

\* the last header with this name, as the loop building the map keeps it
HeaderValue(headers, name, missing) ==
    LET idx == {i \in 1..Len(headers) : headers[i][1] = name}
    IN IF idx = {} THEN missing
       ELSE headers[CHOOSE i \in idx : \A j \in idx : j <= i][2]

\* kafkaMessageToMessage / kafkaToInterfaceMessage
KafkaMessageToMessage(e) ==
    [id |-> HeaderValue(e.headers, "message_id", 0),
     topic |-> e.topic,
     key |-> e.key,
     value |-> e.value,
     tenantID |-> HeaderValue(e.headers, "tenant_id", ""),
     attempts |-> 0]

Payload == "payload"

\* a value json.Unmarshal cannot decode
Malformed == "malformed"

NoMsg == [id |-> 0, topic |-> "", key |-> NoKey, value |-> Payload,
          tenantID |-> "", attempts |-> 0]

\* PublishWithKey (key # "") and Publish (key = ""): Produce appends to the
\* partition the partitioner chooses
PublishMessages(max, keys, payloads, headerSets) ==
    /\ nextUuid <= max
    /\ closePc # "returned"
    /\ \E key \in keys, payload \in payloads, headers \in headerSets :
         LET msg == MessageToKafkaMessage(ConsumedTopic, payload, key,
                                          headers, nextUuid)
         IN \E part \in TargetPartitions(key) :
                brokerLog' = Produce(brokerLog, msg, part)
    /\ nextUuid' = nextUuid + 1
    /\ UNCHANGED <<txVars, db, svcVars, cacheVars, subVars, restVars>>

PublishUpTo(max, keys) == PublishMessages(max, keys, {Payload}, {<<>>})

PublishWithKey == PublishUpTo(MaxMessages, Keys \cup {NoKey})

\* where a consumer created now starts reading
LatestOffsets == [p \in Partitions |-> Len(brokerLog[ConsumedTopic][p])]

\* the handler given to Subscribe: the caller's own, or the tenantHandler
\* SubscribeForTenant wraps around it
NoFilter == [filtered |-> FALSE, tenant |-> ""]
TenantFilter(tenantID) == [filtered |-> TRUE, tenant |-> tenantID]

\* a wrapper that passes every message on
TenantHandlerCalls_Always(filter, msg) == TRUE

\* tenantHandler: if msg.TenantID == tenantID { return handler(ctx, msg) }
TenantHandlerCalls(filter, msg) ==
    filter.filtered => msg.tenantID = filter.tenant

\* Subscribe / SubscribeWithConfig succeeding: consumer and handler are
\* registered and the consumeMessages goroutine is started
SubscribeAs(s, impls, plans, autoCommits, filters) ==
    /\ subImpl[s] = "none"
    /\ \E impl \in impls, auto \in autoCommits, k \in plans, f \in filters :
         /\ impl = "part009" => auto
         /\ subImpl' = [subImpl EXCEPT ![s] = impl]
         /\ subAutoCommit' = [subAutoCommit EXCEPT ![s] = auto]
         /\ handlerFails' = [handlerFails EXCEPT ![s] = k]
         /\ subTenant' = [subTenant EXCEPT ![s] = f]
    /\ handlers' = handlers \cup {s}
    /\ consumers' = consumers \cup {s}
    /\ offsets' = [offsets EXCEPT ![s] = LatestOffsets]
    /\ loopPc' = [loopPc EXCEPT ![s] = "select"]
    /\ UNCHANGED <<closedConsumers, curMsg, attempt, acked, handlerLog, unsubPc,
                   ctxDone, closePc, lastEvent>>
    /\ UNCHANGED <<txVars, db, svcVars, brokerVars, cacheVars, restVars>>

SubscribeWith(s, plans, autoCommits) ==
    SubscribeAs(s, Impls, plans, autoCommits, {NoFilter})

Subscribe(s) == SubscribeWith(s, FailPlans, BOOLEAN)

\* SubscribeForTenant of kafka.go: Subscribe (AutoCommit: true) with the
\* tenantHandler
FilterTenants == {"A", "B"}
TenantFailPlans == {0, 1}

SubscribeForTenant(s) ==
    SubscribeAs(s, {"kafka"}, TenantFailPlans, {TRUE},
                {TenantFilter(t) : t \in FilterTenants})

\* the caller cancels the context given to Subscribe
CancelCtx ==
    /\ ~ctxDone
    /\ \E s \in Subs : subImpl[s] # "none"
    /\ ctxDone' = TRUE
    /\ UNCHANGED <<registryVars, loopVars, unsubPc, closePc>>
    /\ UNCHANGED <<txVars, db, svcVars, brokerVars, cacheVars, restVars>>

\* select: case <-ctx.Done(): return
LoopCtxDone(s) ==
    /\ loopPc[s] = "select"
    /\ ctxDone
    /\ loopPc' = [loopPc EXCEPT ![s] = "exited"]
    /\ UNCHANGED <<registryVars, curMsg, attempt, offsets, acked, handlerLog,
                   unsubPc, ctxDone, closePc, lastEvent>>
    /\ UNCHANGED <<txVars, db, svcVars, brokerVars, cacheVars, restVars>>

\* a loop that returns on every kafka.Error
AfterBrokerEvent_AnyErrorExits(event) == "exited"

\* case kafka.Error: return only if e.Code() == kafka.ErrAllBrokersDown
AfterBrokerEvent(event) == IF event = "fatal" THEN "exited" ELSE "select"

\* Poll returns kafka.Error with code ErrAllBrokersDown: return
LoopAllBrokersDown(s) ==
    /\ loopPc[s] = "select"
    /\ ~ctxDone
    /\ loopPc' = [loopPc EXCEPT ![s] = AfterBrokerEvent("fatal")]
    /\ lastEvent' = [lastEvent EXCEPT ![s] = "fatal"]
    /\ UNCHANGED <<registryVars, curMsg, attempt, offsets, acked, handlerLog,
                   unsubPc, ctxDone, closePc>>
    /\ UNCHANGED <<txVars, db, svcVars, brokerVars, cacheVars, restVars>>

\* Poll returns a kafka.Error with another code, kafka.PartitionEOF or any
\* other event: nothing is done and the loop polls again
LoopOtherEvent(s) ==
    /\ loopPc[s] = "select"
    /\ ~ctxDone
    /\ lastEvent' = [lastEvent EXCEPT ![s] = "other"]
    /\ loopPc' = [loopPc EXCEPT ![s] = AfterBrokerEvent("other")]
    /\ UNCHANGED <<registryVars, curMsg, attempt, offsets, acked,
                   handlerLog, unsubPc, ctxDone, closePc>>
    /\ UNCHANGED <<txVars, db, svcVars, brokerVars, cacheVars, restVars>>

\* Poll returns the next *kafka.Message of some partition; the handler is
\* read from k.handlers under RLock, and without one the message is skipped
LoopPollMessage(s) ==
    /\ loopPc[s] = "select"
    /\ ~ctxDone
    /\ s \notin closedConsumers
    /\ \E p \in Partitions :
         /\ offsets[s][p] < Len(brokerLog[ConsumedTopic][p])
         /\ offsets' = [offsets EXCEPT ![s][p] = @ + 1]
         /\ lastEvent' = [lastEvent EXCEPT ![s] = "message"]
         /\ IF s \in handlers
            THEN /\ curMsg' = [curMsg EXCEPT ![s] = KafkaMessageToMessage(
                                 brokerLog[ConsumedTopic][p][offsets[s][p] + 1])]
                 /\ loopPc' = [loopPc EXCEPT ![s] = "invoke"]
            ELSE UNCHANGED <<curMsg, loopPc>>
    /\ attempt' = [attempt EXCEPT ![s] = 0]
    /\ UNCHANGED <<registryVars, acked, handlerLog, unsubPc, ctxDone, closePc>>
    /\ UNCHANGED <<txVars, db, svcVars, brokerVars, cacheVars, restVars>>

\* msg.Attempts as the handler sees it: only part_009 counts
AttemptsAtCall(impl, msg) ==
    IF impl = "part009" THEN msg.attempts + 1 ELSE msg.attempts

\* the context given to Subscribe: the worker's
\* context.WithCancel(context.Background()), which holds no value
\* ("" stands for ctx.Value(key) = nil)
SubscribeCtx == [tenant_id |-> "", trace_id |-> ""]

\* the context of handler(ctx, msg): the ctx consumeMessages was started with
HandlerCtx(ctx, msg) == ctx

Invocation(ctx, msg, result) ==
    [id |-> msg.id, key |-> msg.key, attempts |-> msg.attempts, result |-> result,
     ctx |-> ctx, slept |-> 0, tenantID |-> msg.tenantID, passedOn |-> TRUE]

\* handler(ctx, msg) is called with the handler read before
LoopInvoke(s) ==
    /\ loopPc[s] = "invoke"
    /\ LET msg == [curMsg[s] EXCEPT !.attempts = AttemptsAtCall(subImpl[s], curMsg[s])]
       IN /\ curMsg' = [curMsg EXCEPT ![s] = msg]
          /\ handlerLog' = [handlerLog EXCEPT ![s] = Append(@,
                [Invocation(HandlerCtx(SubscribeCtx, msg), msg, "running")
                    EXCEPT !.passedOn = TenantHandlerCalls(subTenant[s], msg)])]
    /\ loopPc' = [loopPc EXCEPT ![s] = "handler"]
    /\ UNCHANGED <<registryVars, attempt, offsets, acked, unsubPc, ctxDone, closePc, lastEvent>>
    /\ UNCHANGED <<txVars, db, svcVars, brokerVars, cacheVars, restVars>>

\* the invocations of the handler of s for message id
Invocations(s, id) == {i \in 1..Len(handlerLog[s]) : handlerLog[s][i].id = id}

\* json.Unmarshal(msg.Value, &command) of the worker's handlers
DecodeErr == <<"json: cannot unmarshal">>

\* what the handler given to Subscribe returns from its current invocation:
\* nil from a tenantHandler that does not pass the message on, the decode
\* error for a value it cannot decode, else what its plan says
HandlerResult(s) ==
    IF ~TenantHandlerCalls(subTenant[s], curMsg[s]) THEN NilErr
    ELSE IF curMsg[s].value = Malformed THEN DecodeErr
    ELSE IF Cardinality(Invocations(s, curMsg[s].id)) <= handlerFails[s]
         THEN HandlerErr ELSE NilErr

\* where consumeMessages goes when the handler returned err
AfterHandler_HaltsOnError(impl, err, autoCommit) ==
    [pc |-> IF err = NilErr THEN "select" ELSE "halted",
     commit |-> impl = "kafka" /\ err = NilErr /\ ~autoCommit]

AfterHandler(impl, err, autoCommit) ==
    IF impl = "kafka"
    THEN [pc |-> "select", commit |-> err = NilErr /\ ~autoCommit]
    ELSE [pc |-> IF err = NilErr THEN "select" ELSE "backoff", commit |-> FALSE]

\* the messages of the consumed topic at or below the offset of message id
\* in its partition
UpToOffset(log, id) ==
    UNION {{log[p][j].id : j \in {j \in 1..Len(log[p]) :
                                     \E i \in j..Len(log[p]) : log[p][i].id = id}}
           : p \in Partitions}

\* consumer.CommitMessage(e) stores offset e.Offset + 1 for the partition
\* of e: with it every message of the partition up to e is acknowledged
\* for the group; a failed commit stores nothing
CommitMessage(ackedIds, log, id, ok) ==
    IF ok THEN ackedIds \cup UpToOffset(log, id) ELSE ackedIds

\* CommitMessage returns an error on a closed consumer, and may return one
\* on an open consumer (broker or group coordinator not reachable)
CommitResults(s) == IF s \in closedConsumers THEN {FALSE} ELSE BOOLEAN

LoopHandlerReturn(s) ==
    /\ loopPc[s] = "handler"
    /\ \E commitOk \in CommitResults(s) :
       LET err == HandlerResult(s)
           next == AfterHandler(subImpl[s], err, subAutoCommit[s])
           n == Len(handlerLog[s])
       IN /\ handlerLog' = [handlerLog EXCEPT ![s][n].result =
                                IF err = NilErr THEN "ok" ELSE "error"]
          /\ loopPc' = [loopPc EXCEPT ![s] = next.pc]
          /\ acked' = IF next.commit
                      THEN [acked EXCEPT ![s] =
                               CommitMessage(@, brokerLog[ConsumedTopic],
                                             curMsg[s].id, commitOk)]
                      ELSE acked
          /\ curMsg' = IF next.pc = "select"
                       THEN [curMsg EXCEPT ![s] = NoMsg] ELSE curMsg
          /\ attempt' = IF next.pc = "select"
                        THEN [attempt EXCEPT ![s] = 0] ELSE attempt
    /\ UNCHANGED <<registryVars, offsets, unsubPc, ctxDone, closePc, lastEvent>>
    /\ UNCHANGED <<txVars, db, svcVars, brokerVars, cacheVars, restVars>>

\* part_009: the sleep after a failed attempt ends; attempt++ and the loop
\* condition attempt < maxRetries
AfterBackoff(att) ==
    IF att + 1 < maxRetries THEN "invoke" ELSE "select"

\* milliseconds of the sleep unit of the retry loop
BackoffStep == 500

\* backoff := time.Duration(attempt+1) * 500 * time.Millisecond
Backoff(att) == (att + 1) * BackoffStep

LoopBackoff(s) ==
    /\ loopPc[s] = "backoff"
    /\ LET pc == AfterBackoff(attempt[s])
           n == Len(handlerLog[s])
       IN /\ loopPc' = [loopPc EXCEPT ![s] = pc]
          /\ handlerLog' = [handlerLog EXCEPT ![s][n].slept = Backoff(attempt[s])]
          /\ attempt' = [attempt EXCEPT ![s] = IF pc = "invoke" THEN @ + 1 ELSE 0]
          /\ curMsg' = IF pc = "select"
                       THEN [curMsg EXCEPT ![s] = NoMsg] ELSE curMsg
    /\ UNCHANGED <<registryVars, offsets, acked, unsubPc, ctxDone, closePc, lastEvent>>
    /\ UNCHANGED <<txVars, db, svcVars, brokerVars, cacheVars, restVars>>

\* an unsubscribe that drops the handler map of the whole topic
DeleteHandler_WholeTopic(hs, s) == {}

\* delete(k.handlers[topic], handlerID): the entry of this subscription only
DeleteHandler(hs, s) == hs \ {s}

\* unsubscribe: delete the handler under handlersMutex
UnsubDeleteHandler(s) ==
    /\ subImpl[s] # "none"
    /\ unsubPc[s] = "idle"
    /\ handlers' = DeleteHandler(handlers, s)
    /\ unsubPc' = [unsubPc EXCEPT ![s] = "handlerDeleted"]
    /\ UNCHANGED <<subImpl, subAutoCommit, subTenant, handlerFails, consumers,
                   closedConsumers, loopVars, ctxDone, closePc>>
    /\ UNCHANGED <<txVars, db, svcVars, brokerVars, cacheVars, restVars>>

\* unsubscribe: take the consumer out of k.consumers; part_009 closes it
\* in the same critical section and returns
UnsubDeleteConsumer(s) ==
    /\ unsubPc[s] = "handlerDeleted"
    /\ consumers' = consumers \ {s}
    /\ IF s \notin consumers
       THEN /\ unsubPc' = [unsubPc EXCEPT ![s] = "returned"]
            /\ UNCHANGED closedConsumers
       ELSE IF subImpl[s] = "part009"
            THEN /\ closedConsumers' = closedConsumers \cup {s}
                 /\ unsubPc' = [unsubPc EXCEPT ![s] = "returned"]
            ELSE /\ unsubPc' = [unsubPc EXCEPT ![s] = "closing"]
                 /\ UNCHANGED closedConsumers
    /\ UNCHANGED <<subImpl, subAutoCommit, subTenant, handlerFails, handlers, loopVars,
                   ctxDone, closePc>>
    /\ UNCHANGED <<txVars, db, svcVars, brokerVars, cacheVars, restVars>>

\* unsubscribe of kafka.go: return consumer.Close()
UnsubClose(s) ==
    /\ unsubPc[s] = "closing"
    /\ closedConsumers' = closedConsumers \cup {s}
    /\ unsubPc' = [unsubPc EXCEPT ![s] = "returned"]
    /\ UNCHANGED <<subImpl, subAutoCommit, subTenant, handlerFails, handlers, consumers,
                   loopVars, ctxDone, closePc>>
    /\ UNCHANGED <<txVars, db, svcVars, brokerVars, cacheVars, restVars>>

\* Close: under consumersMutex every registered consumer is closed and
\* taken out of k.consumers; k.handlers is left as it is
CloseConsumers ==
    /\ closePc = "idle"
    /\ closedConsumers' = closedConsumers \cup consumers
    /\ consumers' = {}
    /\ closePc' = "flush"
    /\ UNCHANGED <<subImpl, subAutoCommit, subTenant, handlerFails, handlers, loopVars,
                   unsubPc, ctxDone>>
    /\ UNCHANGED <<txVars, db, svcVars, brokerVars, cacheVars, restVars>>

\* Close: producer.Flush, producer.Close, return nil
CloseProducer ==
    /\ closePc = "flush"
    /\ closePc' = "returned"
    /\ UNCHANGED <<registryVars, loopVars, unsubPc, ctxDone>>
    /\ UNCHANGED <<txVars, db, svcVars, brokerVars, cacheVars, restVars>>

SubInit ==
    /\ subImpl = [s \in Subs |-> "none"]
    /\ subAutoCommit = [s \in Subs |-> TRUE]
    /\ subTenant = [s \in Subs |-> NoFilter]
    /\ handlerFails = [s \in Subs |-> 0]
    /\ handlers = {}
    /\ consumers = {}
    /\ closedConsumers = {}
    /\ loopPc = [s \in Subs |-> "none"]
    /\ curMsg = [s \in Subs |-> NoMsg]
    /\ attempt = [s \in Subs |-> 0]
    /\ offsets = [s \in Subs |-> [p \in Partitions |-> 0]]
    /\ acked = [s \in Subs |-> {}]
    /\ handlerLog = [s \in Subs |-> <<>>]
    /\ unsubPc = [s \in Subs |-> "idle"]
    /\ ctxDone = FALSE
    /\ lastEvent = [s \in Subs |-> "none"]
    /\ closePc = "idle"

(***************************************************************************)
(* Specifications                                                          *)
(***************************************************************************)
(***************************************************************************)
(* Topic administration: CreateTopic, DeleteTopic                          *)
(***************************************************************************)
AdminTopics == {"t1", "t2", "t3"}

\* the per-topic result code of the broker for CreateTopics / DeleteTopics
CreateTopicsCode(existing, topic) ==
    IF topic \in existing THEN "ErrTopicAlreadyExists" ELSE "ErrNoError"

DeleteTopicsCode(existing, topic) ==
    IF topic \in existing THEN "ErrNoError" ELSE "ErrUnknownTopicOrPart"

\* for _, r := range result: any code but ErrNoError is returned as error
TopicResult(what, code) ==
    IF code # "ErrNoError" THEN <<what, code>> ELSE NilErr

AdminCall(op, topic, answered, existed, err) ==
    [op |-> op, topic |-> topic, answered |-> answered, existed |-> existed,
     err |-> err]

\* CreateTopic: the admin request fails (err != nil), or the broker answers
CreateTopic ==
    /\ adminCount < MaxAdminCalls
    /\ \E topic \in AdminTopics, answered \in BOOLEAN :
         IF answered
         THEN /\ brokerTopics' = brokerTopics \cup {topic}
              /\ adminCall' = AdminCall("CreateTopic", topic, TRUE,
                                        topic \in brokerTopics,
                                        TopicResult("create topic",
                                            CreateTopicsCode(brokerTopics, topic)))
         ELSE /\ brokerTopics' = brokerTopics
              /\ adminCall' = AdminCall("CreateTopic", topic, FALSE,
                                        topic \in brokerTopics,
                                        <<"create topic", "request failed">>)
    /\ adminCount' = adminCount + 1
    /\ UNCHANGED <<txVars, db, svcVars, brokerVars, cacheVars, subVars, reentrantVars, adapterVars>>

\* DeleteTopic: the admin request fails (err != nil), or the broker answers
DeleteTopic ==
    /\ adminCount < MaxAdminCalls
    /\ \E topic \in AdminTopics, answered \in BOOLEAN :
         IF answered
         THEN /\ brokerTopics' = brokerTopics \ {topic}
              /\ adminCall' = AdminCall("DeleteTopic", topic, TRUE,
                                        topic \in brokerTopics,
                                        TopicResult("delete topic",
                                            DeleteTopicsCode(brokerTopics, topic)))
         ELSE /\ brokerTopics' = brokerTopics
              /\ adminCall' = AdminCall("DeleteTopic", topic, FALSE,
                                        topic \in brokerTopics,
                                        <<"delete topic", "request failed">>)
    /\ adminCount' = adminCount + 1
    /\ UNCHANGED <<txVars, db, svcVars, brokerVars, cacheVars, subVars, reentrantVars, adapterVars>>

AdminInit ==
    /\ brokerTopics = {}
    /\ adminCall = AdminCall("none", "t1", FALSE, FALSE, NilErr)
    /\ adminCount = 0

ReentrantInit ==
    /\ innerCalls = <<>>
    /\ innerWrites = {}

(***************************************************************************)
(* RedisCache.DeleteByPattern / DeleteByPatternWithTenant as the loop over *)
(* the SCAN iterator that sends one Del per full batch                     *)
(***************************************************************************)
\* Scan(ctx, 0, pattern, 100) and len(keys) >= 100
scanCount == 100

ScanTenant == Str("A")
ScanPattern == <<"list", ":", "*">>

\* n keys of the tenant that match the pattern, m keys that do not
ListKeys(n) == {BuildKey(<<"list", ":", ToString(i)>>, ScanTenant) : i \in 1..n}
OtherKeys(m) ==
    {BuildKey(<<"item", ":", ToString(i)>>, ScanTenant) : i \in 1..m}
        \cup {BuildKey(<<"list", ":", ToString(i)>>, Str("B")) : i \in 1..m}

\* the keys of a set in the order an iteration returns them
RECURSIVE SeqOf(_)
SeqOf(keys) ==
    IF keys = {} THEN <<>>
    ELSE LET k == CHOOSE k \in keys : TRUE IN <<k>> \o SeqOf(keys \ {k})

\* what the SCAN iterator yields: every key that matches, a key possibly
\* more than once (SCAN may return an element several times)
ScanIterator(store, pattern, repeated) ==
    LET found == SeqOf({k \in store : Match(pattern, k)})
    IN IF repeated /\ found # <<>> THEN <<Head(found)>> \o found ELSE found

\* a loop that collects everything and sends one Del at the end
BatchFull_Never(keys) == FALSE

\* if len(keys) >= 100
BatchFull(keys) == Len(keys) >= scanCount

\* for iter.Next(ctx) { keys = append(keys, iter.Val()); if len(keys) >= 100
\* { Del(keys...); keys = keys[:0] } }; if len(keys) > 0 { Del(keys...) }:
\* the batches sent, and whether the call returned the error of a Del.
\* failAt is the number of the Del that fails (0: none does)
RECURSIVE ScanLoop(_, _, _, _)
ScanLoop(iter, keys, batches, failAt) ==
    IF iter = <<>>
    THEN IF Len(keys) > 0
         THEN [batches |-> Append(batches, keys),
               failed |-> failAt = Len(batches) + 1]
         ELSE [batches |-> batches, failed |-> FALSE]
    ELSE LET collected == Append(keys, Head(iter))
         IN IF BatchFull(collected)
            THEN IF failAt = Len(batches) + 1
                 THEN [batches |-> Append(batches, collected), failed |-> TRUE]
                 ELSE ScanLoop(Tail(iter), <<>>, Append(batches, collected), failAt)
            ELSE ScanLoop(Tail(iter), collected, batches, failAt)

\* the keys of the batches whose Del succeeded
DeletedKeys(run) ==
    UNION {{run.batches[b][i] : i \in 1..Len(run.batches[b])}
           : b \in {b \in 1..Len(run.batches) : ~(run.failed /\ b = Len(run.batches))}}

ScanCall(pattern, before, run) ==
    [pattern |-> pattern, before |-> before,
     sizes |-> [b \in 1..Len(run.batches) |-> Len(run.batches[b])],
     failed |-> run.failed]

NoScanCall == [pattern |-> EmptyStr, before |-> {}, sizes |-> <<>>, failed |-> FALSE]

\* RedisCache.DeleteByPatternWithTenant(ctx, pattern, tenantID)
ScanDeleteByPatternWithTenant ==
    /\ scanCall = NoScanCall
    /\ \E failAt \in 0..3, repeated \in BOOLEAN :
         LET pattern == BuildKey(ScanPattern, ScanTenant)
             run == ScanLoop(ScanIterator(scanStore, pattern, repeated),
                             <<>>, <<>>, failAt)
         IN /\ scanStore' = scanStore \ DeletedKeys(run)
            /\ scanCall' = ScanCall(pattern, scanStore, run)
    /\ UNCHANGED <<txVars, db, svcVars, brokerVars, cacheVars, subVars, adminVars,
                   reentrantVars, storageVars, raceVars, lockVars, batchVars,
                   workerVars>>

\* keys are written (SetWithTenant by the read paths) before the next call
ScanRefill ==
    /\ scanCall # NoScanCall \/ scanStore = {}
    /\ \E n \in 0..MaxScanKeys, m \in 0..MaxOtherKeys :
         scanStore' = ListKeys(n) \cup OtherKeys(m)
    /\ scanCall' = NoScanCall
    /\ UNCHANGED <<txVars, db, svcVars, brokerVars, cacheVars, subVars, adminVars,
                   reentrantVars, storageVars, raceVars, lockVars, batchVars,
                   workerVars>>

ScanInit ==
    /\ scanStore = {}
    /\ scanCall = NoScanCall

(***************************************************************************)
(* The storage adapters' own transaction methods: BeginTx, CommitTx,       *)
(* RollbackTx, and a storage call made with the context BeginTx returned   *)
(***************************************************************************)
ErrNoTx == <<"no transaction in context">>

\* return context.WithValue(ctx, txKey, tx): both adapters store the
\* transaction under their package's contextKey "transaction"
BeginTxCtx(impl, ctx) == ctx \cup {RepositoryTxKey}

\* getTx: the transaction, if the context holds one under the key read
GetTx(impl, ctx) == GetTxKey(impl) \in ctx

StCall(op, executor, err) == [op |-> op, executor |-> executor, err |-> err]

\* BeginTx(ctx): pool.Begin, on error the caller's context is returned
StBeginTx ==
    /\ stImpl = "none"
    /\ \E impl \in StorageImpls, ok \in BOOLEAN :
         /\ stImpl' = impl
         /\ stCtx' = IF ok THEN BeginTxCtx(impl, Background) ELSE Background
         /\ stTxState' = IF ok THEN "Open" ELSE "Idle"
         /\ stCall' = StCall("BeginTx", "pool",
                             IF ok THEN NilErr
                             ELSE Wrap("failed to begin transaction", BeginErr))
    /\ stCount' = stCount + 1
    /\ UNCHANGED <<stPending>>
    /\ UNCHANGED <<txVars, db, svcVars, brokerVars, cacheVars, subVars, adminVars,
                   reentrantVars, scanVars, raceVars, lockVars, batchVars,
                   workerVars>>

\* CommitTx(ctx) with the context BeginTx returned
StCommitTx ==
    /\ stImpl # "none"
    /\ stCount < MaxStorageCalls
    /\ IF GetTx(stImpl, stCtx)
       THEN \E outcome \in CommitOutcomes :
              LET r == TxCommit(stTxState, outcome) IN
                /\ stTxState' = r.state
                /\ stCall' = StCall("CommitTx", "tx", r.call.err)
                /\ db' = IF r.call.applied THEN ApplyWrites(db, stPending) ELSE db
       ELSE /\ stCall' = StCall("CommitTx", "none", ErrNoTx)
            /\ UNCHANGED <<stTxState, db>>
    /\ stCount' = stCount + 1
    /\ UNCHANGED <<stImpl, stCtx, stPending>>
    /\ UNCHANGED <<txVars, svcVars, brokerVars, cacheVars, subVars, adminVars,
                   reentrantVars, scanVars, raceVars, lockVars, batchVars,
                   workerVars>>

\* RollbackTx(ctx) with the context BeginTx returned
StRollbackTx ==
    /\ stImpl # "none"
    /\ stCount < MaxStorageCalls
    /\ IF GetTx(stImpl, stCtx)
       THEN \E ok \in BOOLEAN :
              LET r == TxRollback(stTxState, ok) IN
                /\ stTxState' = r.state
                /\ stCall' = StCall("RollbackTx", "tx", r.call.err)
       ELSE /\ stCall' = StCall("RollbackTx", "none", ErrNoTx)
            /\ UNCHANGED stTxState
    /\ stCount' = stCount + 1
    /\ UNCHANGED <<stImpl, stCtx, stPending>>
    /\ UNCHANGED <<txVars, db, svcVars, brokerVars, cacheVars, subVars, adminVars,
                   reentrantVars, scanVars, raceVars, lockVars, batchVars,
                   workerVars>>

\* SaveProduct(ctx, product) with the context BeginTx returned, while the
\* transaction is open
StSaveProduct ==
    /\ stImpl # "none"
    /\ stTxState = "Open"
    /\ stCount < MaxStorageCalls
    /\ \E p \in Products :
         LET executor == GetExecutor(stImpl, stCtx)
             r == StorageWrite(executor, db, stPending, {<<p, stCount>>})
         IN /\ db' = r.db
            /\ stPending' = r.pending
            /\ stCall' = StCall("SaveProduct", executor, NilErr)
    /\ stCount' = stCount + 1
    /\ UNCHANGED <<stImpl, stCtx, stTxState>>
    /\ UNCHANGED <<txVars, svcVars, brokerVars, cacheVars, subVars, adminVars,
                   reentrantVars, scanVars, raceVars, lockVars, batchVars,
                   workerVars>>

StorageInit ==
    /\ stImpl = "none"
    /\ stCtx = Background
    /\ stTxState = "Idle"
    /\ stPending = {}
    /\ stCall = StCall("none", "none", NilErr)
    /\ stCount = 0

(***************************************************************************)
(* GetProduct, UpdateProduct and DeleteProduct of one product, as          *)
(* concurrent request goroutines: every storage and cache call is a step   *)
(***************************************************************************)
GetCalls == {"g1", "g2"}
MutCalls == {"u1", "u2"}
RaceProduct == "p1"

RaceCacheKey == ProductCacheKey(SvcTenant, SvcSupplier, Str(RaceProduct))

\* GetProduct: cachedData, cacheErr := s.cache.GetWithTenant(...); a hit
\* returns the cached product
GetCacheLookup(g) ==
    /\ getPc[g] = "idle"
    /\ getPc' = [getPc EXCEPT ![g] =
                    IF BuildKey(RaceCacheKey, SvcTenant) \in DOMAIN cache
                    THEN "returned" ELSE "storage"]
    /\ UNCHANGED <<getValue, mutPc, mutOp>>
    /\ UNCHANGED <<txVars, db, svcVars, brokerVars, cacheVars, subVars, adminVars,
                   reentrantVars, scanVars, storageVars, lockVars, batchVars,
                   workerVars>>

\* GetProduct: s.repository.GetProductBySupplier; nil, nil for no row
GetReadStorage(g) ==
    /\ getPc[g] = "storage"
    /\ getValue' = [getValue EXCEPT ![g] = db[RaceProduct]]
    /\ getPc' = [getPc EXCEPT ![g] =
                    IF db[RaceProduct] = 0 THEN "returned" ELSE "set"]
    /\ UNCHANGED <<mutPc, mutOp>>
    /\ UNCHANGED <<txVars, db, svcVars, brokerVars, cacheVars, subVars, adminVars,
                   reentrantVars, scanVars, storageVars, lockVars, batchVars,
                   workerVars>>

\* GetProduct: s.cache.SetWithTenant(ctx, cacheKey, productJSON, tenantID, ..)
GetSetCache(g) ==
    /\ getPc[g] = "set"
    /\ cache' = SetWithTenant(cache, RaceCacheKey,
                              CacheValue(SvcTenant, getValue[g]), SvcTenant)
    /\ getPc' = [getPc EXCEPT ![g] = "returned"]
    /\ UNCHANGED <<getValue, mutPc, mutOp, cacheCall>>
    /\ UNCHANGED <<txVars, db, svcVars, brokerVars, subVars, adminVars,
                   reentrantVars, scanVars, storageVars, lockVars, batchVars,
                   workerVars>>

\* the row version after the mutation
MutatedVersion(op, version) == IF op = "Delete" THEN 0 ELSE version + 1

\* UpdateProduct: s.repository.SaveProduct / DeleteProduct:
\* s.repository.DeleteProduct, on the pool
MutWriteStorage(u) ==
    /\ mutPc[u] = "idle"
    /\ \E op \in {"Update", "Delete"} :
         /\ op = "Delete" => db[RaceProduct] # 0
         /\ mutOp' = [mutOp EXCEPT ![u] = op]
         /\ db' = ApplyWrites(db, {<<RaceProduct,
                                     MutatedVersion(op, db[RaceProduct])>>})
    /\ mutPc' = [mutPc EXCEPT ![u] = "invalidate"]
    /\ UNCHANGED <<getPc, getValue>>
    /\ UNCHANGED <<txVars, svcVars, brokerVars, cacheVars, subVars, adminVars,
                   reentrantVars, scanVars, storageVars, lockVars, batchVars,
                   workerVars>>

\* UpdateProduct / DeleteProduct: _ = s.cache.DeleteWithTenant(...), and
\* for DeleteProduct the list pattern; then the event and the return
MutInvalidate(u) ==
    /\ mutPc[u] = "invalidate"
    /\ LET c1 == DeleteWithTenant(cache, RaceCacheKey, SvcTenant)
       IN cache' = IF mutOp[u] = "Delete"
                   THEN DeleteByPatternWithTenant(c1, ListPattern, SvcTenant)
                   ELSE c1
    /\ mutPc' = [mutPc EXCEPT ![u] = "returned"]
    /\ UNCHANGED <<getPc, getValue, mutOp, cacheCall>>
    /\ UNCHANGED <<txVars, db, svcVars, brokerVars, subVars, adminVars,
                   reentrantVars, scanVars, storageVars, lockVars, batchVars,
                   workerVars>>

RaceInit ==
    /\ getPc = [g \in GetCalls |-> "idle"]
    /\ getValue = [g \in GetCalls |-> 0]
    /\ mutPc = [u \in MutCalls |-> "idle"]
    /\ mutOp = [u \in MutCalls |-> "Update"]

(***************************************************************************)
(* Subscribe, unsubscribe, Close and consumeMessages statement by          *)
(* statement, with handlersMutex (sync.RWMutex) and consumersMutex         *)
(* (sync.Mutex).  A call that finds a lock taken waits at its Lock.        *)
(***************************************************************************)
NoHolder == <<>>

\* sync.RWMutex: Lock returns when there is no writer and no reader; RLock
\* returns when there is no writer and no goroutine is waiting in Lock ("a
\* blocked Lock call excludes new readers from acquiring the lock")
CanLock(m) == m.writer = NoHolder /\ m.readers = {}
CanRLock(m, waiting) == m.writer = NoHolder /\ waiting = {}

\* the calls that are inside k.handlersMutex.Lock()
HandlersWaiters ==
    {<<"Subscribe", s>> : s \in {t \in Subs : subPc[t] \in {"lockHandlers", "lockCleanup"}}}
    \cup {<<"unsubscribe", s>> :
              s \in {t \in Subs : \/ unsubPc[t] = "lockHandlers"
                                  \/ unsubPc[t] = "firstLock" /\ subImpl[t] = "kafka"}}

ErrNewConsumer == <<"NewConsumer failed">>
ErrSubscribeTopic == <<"consumer.Subscribe failed">>

\* what kafka.NewConsumer and consumer.Subscribe do for a Subscribe call
ConsumerOutcomes == {"ok", "newConsumerFails", "subscribeFails"}

SubscribeError(outcome) ==
    CASE outcome = "newConsumerFails" -> ErrNewConsumer
      [] outcome = "subscribeFails" -> ErrSubscribeTopic
      [] OTHER -> NilErr

\* a failure path that leaves the handler registered
FailedSubscribeHandlers_Keeps(hs, s) == hs

\* kafka.go, both failure paths: delete(k.handlers[topic], handlerID)
FailedSubscribeHandlers(hs, s) == hs \ {s}

\* a loop that keeps the read lock while the handler runs
ReadersAfterLookup_Held(readers, s) == readers

\* consumeMessages: k.handlersMutex.RUnlock() before handler(ctx, msg)
ReadersAfterLookup(readers, s) == readers \ {s}

\* everything the statement-level actions leave alone
LockFrame ==
    UNCHANGED <<txVars, db, svcVars, brokerVars, cacheVars, subAutoCommit,
                subTenant, handlerFails, curMsg, attempt, offsets, acked,
                handlerLog, lastEvent, ctxDone, adminVars, reentrantVars,
                scanVars, storageVars, raceVars, batchVars, workerVars>>

\* Subscribe is called: one KafkaMessaging is of one adapter
LkSubscribeCall(s) ==
    /\ subPc[s] = "idle"
    /\ closePc = "idle"
    /\ \E impl \in Impls :
         /\ \A t \in Subs : subImpl[t] \in {"none", impl}
         /\ subImpl' = [subImpl EXCEPT ![s] = impl]
         /\ subPc' = [subPc EXCEPT ![s] =
                         IF impl = "kafka" THEN "lockHandlers" ELSE "newConsumer"]
    /\ UNCHANGED <<handlers, consumers, closedConsumers, loopPc, unsubPc, closePc,
                   hMutex, cMutex, subErr>>
    /\ LockFrame

\* k.handlersMutex.Lock()
LkSubLockHandlers(s) ==
    /\ subPc[s] = "lockHandlers"
    /\ CanLock(hMutex)
    /\ hMutex' = [hMutex EXCEPT !.writer = <<"Subscribe", s>>]
    /\ subPc' = [subPc EXCEPT ![s] = "registerHandler"]
    /\ UNCHANGED <<subImpl, handlers, consumers, closedConsumers, loopPc, unsubPc,
                   closePc, cMutex, subErr>>
    /\ LockFrame

\* k.handlers[...] = handler; k.handlersMutex.Unlock()
LkSubRegisterHandler(s) ==
    /\ subPc[s] = "registerHandler"
    /\ handlers' = handlers \cup {s}
    /\ hMutex' = [hMutex EXCEPT !.writer = NoHolder]
    /\ subPc' = [subPc EXCEPT ![s] =
                    IF subImpl[s] = "kafka" THEN "newConsumer" ELSE "start"]
    /\ UNCHANGED <<subImpl, consumers, closedConsumers, loopPc, unsubPc, closePc,
                   cMutex, subErr>>
    /\ LockFrame

\* kafka.NewConsumer and consumer.Subscribe(topic, nil); part_009 has
\* registered nothing yet and returns the error (after consumer.Close() if
\* the consumer exists), kafka.go goes to take its handler out again
LkSubNewConsumer(s) ==
    /\ subPc[s] = "newConsumer"
    /\ \E outcome \in ConsumerOutcomes :
         /\ subErr' = [subErr EXCEPT ![s] = SubscribeError(outcome)]
         /\ subPc' = [subPc EXCEPT ![s] =
                         IF outcome = "ok" THEN "lockConsumers"
                         ELSE IF subImpl[s] = "kafka" THEN "lockCleanup"
                         ELSE "returned"]
         /\ closedConsumers' =
                IF outcome = "subscribeFails" /\ subImpl[s] = "part009"
                THEN closedConsumers \cup {s} ELSE closedConsumers
    /\ UNCHANGED <<subImpl, handlers, consumers, loopPc, unsubPc, closePc, hMutex,
                   cMutex>>
    /\ LockFrame

\* kafka.go, failure: k.handlersMutex.Lock()
LkSubLockCleanup(s) ==
    /\ subPc[s] = "lockCleanup"
    /\ CanLock(hMutex)
    /\ hMutex' = [hMutex EXCEPT !.writer = <<"Subscribe", s>>]
    /\ subPc' = [subPc EXCEPT ![s] = "cleanup"]
    /\ UNCHANGED <<subImpl, handlers, consumers, closedConsumers, loopPc, unsubPc,
                   closePc, cMutex, subErr>>
    /\ LockFrame

\* kafka.go, failure: delete(k.handlers[topic], handlerID); Unlock;
\* consumer.Close() if the consumer exists; return nil, err
LkSubCleanup(s) ==
    /\ subPc[s] = "cleanup"
    /\ handlers' = FailedSubscribeHandlers(handlers, s)
    /\ hMutex' = [hMutex EXCEPT !.writer = NoHolder]
    /\ closedConsumers' = IF subErr[s] = ErrSubscribeTopic
                          THEN closedConsumers \cup {s} ELSE closedConsumers
    /\ subPc' = [subPc EXCEPT ![s] = "returned"]
    /\ UNCHANGED <<subImpl, consumers, loopPc, unsubPc, closePc, cMutex, subErr>>
    /\ LockFrame

\* k.consumersMutex.Lock()
LkSubLockConsumers(s) ==
    /\ subPc[s] = "lockConsumers"
    /\ cMutex = NoHolder
    /\ cMutex' = <<"Subscribe", s>>
    /\ subPc' = [subPc EXCEPT ![s] = "registerConsumer"]
    /\ UNCHANGED <<subImpl, handlers, consumers, closedConsumers, loopPc, unsubPc,
                   closePc, hMutex, subErr>>
    /\ LockFrame

\* k.consumers[id] = consumer; k.consumersMutex.Unlock()
LkSubRegisterConsumer(s) ==
    /\ subPc[s] = "registerConsumer"
    /\ consumers' = consumers \cup {s}
    /\ cMutex' = NoHolder
    /\ subPc' = [subPc EXCEPT ![s] =
                    IF subImpl[s] = "kafka" THEN "start" ELSE "lockHandlers"]
    /\ UNCHANGED <<subImpl, handlers, closedConsumers, loopPc, unsubPc, closePc,
                   hMutex, subErr>>
    /\ LockFrame

\* go k.consumeMessages(...); return unsubscribe, nil
LkSubStart(s) ==
    /\ subPc[s] = "start"
    /\ loopPc' = [loopPc EXCEPT ![s] = "select"]
    /\ subPc' = [subPc EXCEPT ![s] = "returned"]
    /\ UNCHANGED <<subImpl, handlers, consumers, closedConsumers, unsubPc, closePc,
                   hMutex, cMutex, subErr>>
    /\ LockFrame

\* the steps of a Subscribe call
LkSubscribeStep(s) ==
    \/ LkSubLockHandlers(s)
    \/ LkSubRegisterHandler(s)
    \/ LkSubNewConsumer(s)
    \/ LkSubLockCleanup(s)
    \/ LkSubCleanup(s)
    \/ LkSubLockConsumers(s)
    \/ LkSubRegisterConsumer(s)
    \/ LkSubStart(s)

\* the unsubscribe function Subscribe returned is called
LkUnsubscribeCall(s) ==
    /\ subPc[s] = "returned"
    /\ subErr[s] = NilErr
    /\ unsubPc[s] = "idle"
    /\ unsubPc' = [unsubPc EXCEPT ![s] = "firstLock"]
    /\ UNCHANGED <<subImpl, handlers, consumers, closedConsumers, loopPc, closePc,
                   hMutex, cMutex, subPc, subErr>>
    /\ LockFrame

\* unsubscribe(): the first Lock; kafka.go takes handlersMutex, part_009
\* consumersMutex (released by defer when the function returns)
LkUnsubFirstLock(s) ==
    /\ unsubPc[s] = "firstLock"
    /\ IF subImpl[s] = "kafka"
       THEN /\ CanLock(hMutex)
            /\ hMutex' = [hMutex EXCEPT !.writer = <<"unsubscribe", s>>]
            /\ UNCHANGED cMutex
       ELSE /\ cMutex = NoHolder
            /\ cMutex' = <<"unsubscribe", s>>
            /\ UNCHANGED hMutex
    /\ unsubPc' = [unsubPc EXCEPT ![s] =
                      IF subImpl[s] = "kafka" THEN "deleteHandler" ELSE "lockHandlers"]
    /\ UNCHANGED <<subImpl, handlers, consumers, closedConsumers, loopPc, closePc,
                   subPc, subErr>>
    /\ LockFrame

\* part_009: k.handlersMutex.Lock() while consumersMutex is held
LkUnsubLockHandlers(s) ==
    /\ unsubPc[s] = "lockHandlers"
    /\ CanLock(hMutex)
    /\ hMutex' = [hMutex EXCEPT !.writer = <<"unsubscribe", s>>]
    /\ unsubPc' = [unsubPc EXCEPT ![s] = "deleteHandler"]
    /\ UNCHANGED <<subImpl, handlers, consumers, closedConsumers, loopPc, closePc,
                   cMutex, subPc, subErr>>
    /\ LockFrame

\* delete(k.handlers..., id); k.handlersMutex.Unlock()
LkUnsubDeleteHandler(s) ==
    /\ unsubPc[s] = "deleteHandler"
    /\ handlers' = DeleteHandler(handlers, s)
    /\ hMutex' = [hMutex EXCEPT !.writer = NoHolder]
    /\ unsubPc' = [unsubPc EXCEPT ![s] =
                      IF subImpl[s] = "kafka" THEN "lockConsumers"
                      ELSE "deleteConsumer"]
    /\ UNCHANGED <<subImpl, consumers, closedConsumers, loopPc, closePc, cMutex,
                   subPc, subErr>>
    /\ LockFrame

\* kafka.go: k.consumersMutex.Lock()
LkUnsubLockConsumers(s) ==
    /\ unsubPc[s] = "lockConsumers"
    /\ cMutex = NoHolder
    /\ cMutex' = <<"unsubscribe", s>>
    /\ unsubPc' = [unsubPc EXCEPT ![s] = "deleteConsumer"]
    /\ UNCHANGED <<subImpl, handlers, consumers, closedConsumers, loopPc, closePc,
                   hMutex, subPc, subErr>>
    /\ LockFrame

\* delete(k.consumers, id) and Unlock; part_009 closes the consumer before
\* the deferred Unlock, kafka.go after the Unlock
LkUnsubDeleteConsumer(s) ==
    /\ unsubPc[s] = "deleteConsumer"
    /\ consumers' = consumers \ {s}
    /\ cMutex' = NoHolder
    /\ closedConsumers' = IF subImpl[s] = "part009" /\ s \in consumers
                          THEN closedConsumers \cup {s} ELSE closedConsumers
    /\ unsubPc' = [unsubPc EXCEPT ![s] =
                      IF subImpl[s] = "kafka" /\ s \in consumers
                      THEN "closing" ELSE "returned"]
    /\ UNCHANGED <<subImpl, handlers, loopPc, closePc, hMutex, subPc, subErr>>
    /\ LockFrame

\* kafka.go: return consumer.Close()
LkUnsubClose(s) ==
    /\ unsubPc[s] = "closing"
    /\ closedConsumers' = closedConsumers \cup {s}
    /\ unsubPc' = [unsubPc EXCEPT ![s] = "returned"]
    /\ UNCHANGED <<subImpl, handlers, consumers, loopPc, closePc, hMutex, cMutex,
                   subPc, subErr>>
    /\ LockFrame

\* the steps of a call of kafka.go's unsubscribe function
LkUnsubscribeStepKafka(s) ==
    \/ LkUnsubFirstLock(s)
    \/ LkUnsubDeleteHandler(s)
    \/ LkUnsubLockConsumers(s)
    \/ LkUnsubDeleteConsumer(s)
    \/ LkUnsubClose(s)

\* the steps of a call of an unsubscribe function of either adapter
LkUnsubscribeStep(s) ==
    \/ LkUnsubscribeStepKafka(s)
    \/ LkUnsubLockHandlers(s)

\* Close is called
LkCloseCall ==
    /\ closePc = "idle"
    /\ \E s \in Subs : subPc[s] # "idle"
    /\ closePc' = "lockConsumers"
    /\ UNCHANGED <<subImpl, handlers, consumers, closedConsumers, loopPc, unsubPc,
                   hMutex, cMutex, subPc, subErr>>
    /\ LockFrame

\* Close: k.consumersMutex.Lock()
LkCloseLock ==
    /\ closePc = "lockConsumers"
    /\ cMutex = NoHolder
    /\ cMutex' = <<"Close">>
    /\ closePc' = "closeConsumers"
    /\ UNCHANGED <<subImpl, handlers, consumers, closedConsumers, loopPc, unsubPc,
                   hMutex, subPc, subErr>>
    /\ LockFrame

\* Close: every registered consumer is closed and deleted; Unlock
LkCloseConsumers ==
    /\ closePc = "closeConsumers"
    /\ closedConsumers' = closedConsumers \cup consumers
    /\ consumers' = {}
    /\ cMutex' = NoHolder
    /\ closePc' = "flush"
    /\ UNCHANGED <<subImpl, handlers, loopPc, unsubPc, hMutex, subPc, subErr>>
    /\ LockFrame

\* Close: producer.Flush, producer.Close, return nil
LkCloseProducer ==
    /\ closePc = "flush"
    /\ closePc' = "returned"
    /\ UNCHANGED <<subImpl, handlers, consumers, closedConsumers, loopPc, unsubPc,
                   hMutex, cMutex, subPc, subErr>>
    /\ LockFrame

\* the steps of a Close call
LkCloseStep ==
    \/ LkCloseLock
    \/ LkCloseConsumers
    \/ LkCloseProducer

\* consumeMessages: Poll returned a message
LkLoopPoll(s) ==
    /\ loopPc[s] = "select"
    /\ loopPc' = [loopPc EXCEPT ![s] = "rlock"]
    /\ UNCHANGED <<subImpl, handlers, consumers, closedConsumers, unsubPc, closePc,
                   hMutex, cMutex, subPc, subErr>>
    /\ LockFrame

\* k.handlersMutex.RLock()
LkLoopRLock(s) ==
    /\ loopPc[s] = "rlock"
    /\ CanRLock(hMutex, HandlersWaiters)
    /\ hMutex' = [hMutex EXCEPT !.readers = @ \cup {s}]
    /\ loopPc' = [loopPc EXCEPT ![s] = "lookup"]
    /\ UNCHANGED <<subImpl, handlers, consumers, closedConsumers, unsubPc, closePc,
                   cMutex, subPc, subErr>>
    /\ LockFrame

\* handler, ok := k.handlers[...]; RUnlock; continue without a handler
LkLoopLookup(s) ==
    /\ loopPc[s] = "lookup"
    /\ hMutex' = [hMutex EXCEPT !.readers =
                     IF s \in handlers THEN ReadersAfterLookup(@, s) ELSE @ \ {s}]
    /\ loopPc' = [loopPc EXCEPT ![s] = IF s \in handlers THEN "handler" ELSE "select"]
    /\ UNCHANGED <<subImpl, handlers, consumers, closedConsumers, unsubPc, closePc,
                   cMutex, subPc, subErr>>
    /\ LockFrame

\* handler(ctx, msg) returns; the loop goes on
LkLoopHandlerReturn(s) ==
    /\ loopPc[s] = "handler"
    /\ hMutex' = [hMutex EXCEPT !.readers = @ \ {s}]
    /\ loopPc' = [loopPc EXCEPT ![s] = "select"]
    /\ UNCHANGED <<subImpl, handlers, consumers, closedConsumers, unsubPc, closePc,
                   cMutex, subPc, subErr>>
    /\ LockFrame

\* the steps of the loop between RLock and RUnlock
LkLoopLockedStep(s) ==
    \/ LkLoopRLock(s)
    \/ LkLoopLookup(s)

LockInit ==
    /\ hMutex = [writer |-> NoHolder, readers |-> {}]
    /\ cMutex = NoHolder
    /\ subPc = [s \in Subs |-> "idle"]
    /\ subErr = [s \in Subs |-> NilErr]

(***************************************************************************)
(* KafkaMessaging.PublishBatch: one Publish per element of the slice.      *)
(* Produce puts the message on the producer's queue or returns an error.   *)
(***************************************************************************)
BatchPayloads == {"a", "b"}

\* the slices a caller passes: every sequence of up to MaxBatchLen payloads
BatchSlices == UNION {[1..n -> BatchPayloads] : n \in 0..MaxBatchLen}

ErrProduce == <<"Local: Queue full">>

\* a loop that goes on after a failed Publish
BatchStops_Never(err) == FALSE

\* if err := k.Publish(ctx, topic, message); err != nil { return err }
BatchStops(err) == err # NilErr

\* for _, message := range messages: Publish builds the kafka message and
\* hands it to Produce; the failAt-th Produce of the call fails (0: none)
RECURSIVE PublishBatchLoop(_, _, _, _, _, _)
PublishBatchLoop(messages, i, queue, attempted, uuid, failAt) ==
    IF i > Len(messages)
    THEN [queue |-> queue, attempted |-> attempted, err |-> NilErr]
    ELSE LET msg == MessageToKafkaMessage(ConsumedTopic, messages[i], NoKey,
                                          <<>>, uuid)
             err == IF i = failAt THEN ErrProduce ELSE NilErr
             accepted == IF err = NilErr THEN Append(queue, msg) ELSE queue
         IN IF BatchStops(err)
            THEN [queue |-> accepted, attempted |-> Append(attempted, msg),
                  err |-> err]
            ELSE PublishBatchLoop(messages, i + 1, accepted,
                                  Append(attempted, msg), uuid + 1, failAt)

NoBatchCall == [called |-> FALSE, messages |-> <<>>, failAt |-> 0,
                before |-> <<>>, attempted |-> <<>>, err |-> NilErr]

\* Publish: a message accepted by the producer before the batch
BatchPublishBefore ==
    /\ batchCall = NoBatchCall
    /\ producerQueue = <<>>
    /\ \E payload \in BatchPayloads :
         producerQueue' = Append(producerQueue,
             MessageToKafkaMessage(ConsumedTopic, payload, NoKey, <<>>, nextUuid))
    /\ nextUuid' = nextUuid + 1
    /\ UNCHANGED <<batchCall, brokerLog>>
    /\ UNCHANGED <<txVars, db, svcVars, cacheVars, subVars, adminVars,
                   reentrantVars, scanVars, storageVars, raceVars, lockVars,
                   workerVars>>

PublishBatch ==
    /\ batchCall = NoBatchCall
    /\ \E messages \in BatchSlices, failAt \in 0..MaxBatchLen :
         LET run == PublishBatchLoop(messages, 1, producerQueue, <<>>,
                                     nextUuid, failAt)
         IN /\ producerQueue' = run.queue
            /\ nextUuid' = nextUuid + Len(run.attempted)
            /\ batchCall' = [called |-> TRUE, messages |-> messages,
                             failAt |-> failAt, before |-> producerQueue,
                             attempted |-> run.attempted, err |-> run.err]
    /\ UNCHANGED brokerLog
    /\ UNCHANGED <<txVars, db, svcVars, cacheVars, subVars, adminVars,
                   reentrantVars, scanVars, storageVars, raceVars, lockVars,
                   workerVars>>

BatchInit ==
    /\ producerQueue = <<>>
    /\ batchCall = NoBatchCall

(***************************************************************************)
(* cmd/worker/main.go: subscribeToProductCommands and                      *)
(* subscribeToProductEvents each add 1 to the WaitGroup and start a        *)
(* goroutine that subscribes, waits for ctx.Done() and unsubscribes; the   *)
(* signal goroutine cancels, waits for the WaitGroup and closes done.      *)
(***************************************************************************)
\* a Wait that returns while one goroutine is still out
WgWaitReturns_Early(count) == count <= 1

\* wg.Wait() returns when the counter is zero
WgWaitReturns(count) == count = 0

\* messagingClient.SubscribeWithConfig(ctx, topic, handler, cfg): the worker
\* is built with the kafka.go adapter
WkSubscribe(s) ==
    /\ LkSubscribeCall(s)
    /\ subImpl'[s] = "kafka"

\* <-ctx.Done() returned; the deferred unsubscribe() runs
WkUnsubscribe(s) ==
    /\ ctxDone
    /\ LkUnsubscribeCall(s)

\* the goroutine returns: after a failed subscription, or after the
\* deferred unsubscribe returned; the deferred wg.Done() runs last
WkGoroutineReturns(s) ==
    /\ s \notin wkExited
    /\ subPc[s] = "returned"
    /\ subErr[s] # NilErr \/ unsubPc[s] = "returned"
    /\ wkExited' = wkExited \cup {s}
    /\ wgCount' = wgCount - 1
    /\ UNCHANGED wkPc
    /\ UNCHANGED <<txVars, db, svcVars, brokerVars, cacheVars, subVars, adminVars,
                   reentrantVars, scanVars, storageVars, raceVars, lockVars,
                   batchVars>>

\* <-quit: SIGINT or SIGTERM arrived; cancel()
WkSignal ==
    /\ wkPc = "waitQuit"
    /\ wkPc' = "wgWait"
    /\ ctxDone' = TRUE
    /\ UNCHANGED <<wgCount, wkExited>>
    /\ UNCHANGED <<registryVars, loopVars, unsubPc, closePc>>
    /\ UNCHANGED <<txVars, db, svcVars, brokerVars, cacheVars, adminVars,
                   reentrantVars, scanVars, storageVars, raceVars, lockVars,
                   batchVars>>

\* wg.Wait() returned; close(done)
WkCloseDone ==
    /\ wkPc = "wgWait"
    /\ WgWaitReturns(wgCount)
    /\ wkPc' = "doneClosed"
    /\ UNCHANGED <<wgCount, wkExited>>
    /\ UNCHANGED <<txVars, db, svcVars, brokerVars, cacheVars, subVars, adminVars,
                   reentrantVars, scanVars, storageVars, raceVars, lockVars,
                   batchVars>>

\* main has called wg.Add(1) once per subscriber goroutine
WorkerInit ==
    /\ wkPc = "waitQuit"
    /\ wgCount = Cardinality(Subs)
    /\ wkExited = {}

Init ==
    /\ TxInit
    /\ db = [p \in Products |-> 0]
    /\ SvcInit
    /\ BrokerInit
    /\ CacheInit
    /\ SubInit
    /\ AdminInit
    /\ ReentrantInit
    /\ ScanInit
    /\ StorageInit
    /\ RaceInit
    /\ LockInit
    /\ BatchInit
    /\ WorkerInit

NextAdmin ==
    \/ CreateTopic
    \/ DeleteTopic

SpecAdmin == Init /\ [][NextAdmin]_vars

\* Do called with an fn that calls Do again
NextReentrant ==
    \/ DoStart
    \/ DoBegin
    \/ DoFnReentrant
    \/ DoAfterFn
    \/ DoDeferred

SpecReentrant == Init /\ [][NextReentrant]_vars

\* DeleteByPattern over stores of every size around the batch size
NextScan ==
    \/ ScanDeleteByPatternWithTenant
    \/ ScanRefill

SpecScan == Init /\ [][NextScan]_vars

\* a caller of the storage adapter's own transaction methods
NextStorage ==
    \/ StBeginTx
    \/ StCommitTx
    \/ StRollbackTx
    \/ StSaveProduct

SpecStorage == Init /\ [][NextStorage]_vars

\* PublishForTenant for two tenants and Publish without a tenant
TenantOnlyHeaders ==
    {<<>>, << <<"tenant_id", "A">> >>, << <<"tenant_id", "B">> >>}

PublishTenants ==
    PublishMessages(MaxMessages, {NoKey}, {Payload}, TenantOnlyHeaders)

\* a subscription made with SubscribeForTenant
NextTenant ==
    \/ PublishTenants
    \/ CancelCtx
    \/ \E s \in SoloSubs :
          \/ SubscribeForTenant(s)
          \/ LoopCtxDone(s)
          \/ LoopAllBrokersDown(s)
          \/ LoopOtherEvent(s)
          \/ LoopPollMessage(s)
          \/ LoopInvoke(s)
          \/ LoopHandlerReturn(s)
          \/ UnsubDeleteHandler(s)
          \/ UnsubDeleteConsumer(s)
          \/ UnsubClose(s)

SpecTenant == Init /\ [][NextTenant]_vars

\* request goroutines reading and mutating one product
NextRace ==
    \/ \E g \in GetCalls :
          \/ GetCacheLookup(g)
          \/ GetReadStorage(g)
          \/ GetSetCache(g)
    \/ \E u \in MutCalls :
          \/ MutWriteStorage(u)
          \/ MutInvalidate(u)

SpecRace == Init /\ [][NextRace]_vars

\* Subscribe, unsubscribe, Close and the loops as concurrent goroutines
NextLocks ==
    \/ LkCloseCall
    \/ LkCloseStep
    \/ \E s \in Subs :
          \/ LkSubscribeCall(s)
          \/ LkSubscribeStep(s)
          \/ LkUnsubscribeCall(s)
          \/ LkUnsubscribeStep(s)
          \/ LkLoopPoll(s)
          \/ LkLoopLockedStep(s)
          \/ LkLoopHandlerReturn(s)

SpecLocks == Init /\ [][NextLocks]_vars

\* Every goroutine that is not waiting for a lock takes its next step, and
\* a goroutine waiting at Lock gets the lock when it is free again and
\* again (sync.Mutex and sync.RWMutex do not starve a waiter).  Nothing
\* makes a handler return and nothing makes Poll return a message.
SpecLocksFair ==
    /\ Init /\ [][NextLocks]_vars
    /\ SF_vars(LkCloseStep)
    /\ \A s \in Subs :
          /\ SF_vars(LkSubscribeStep(s))
          /\ SF_vars(LkUnsubscribeStep(s))
          /\ SF_vars(LkLoopLockedStep(s))

\* one PublishBatch call on a producer that may hold an earlier message
NextBatch ==
    \/ BatchPublishBefore
    \/ PublishBatch

SpecBatch == Init /\ [][NextBatch]_vars

\* the worker: two subscriber goroutines, their loops, the signal goroutine
NextWorker ==
    \/ WkSignal
    \/ WkCloseDone
    \/ \E s \in Subs :
          \/ WkSubscribe(s)
          \/ LkSubscribeStep(s)
          \/ WkUnsubscribe(s)
          \/ LkUnsubscribeStepKafka(s)
          \/ WkGoroutineReturns(s)
          \/ LkLoopPoll(s)
          \/ LkLoopLockedStep(s)
          \/ LkLoopHandlerReturn(s)
          \/ LoopCtxDone(s)

SpecWorker == Init /\ [][NextWorker]_vars

\* Every goroutine of the worker that can take a step takes it, and a
\* goroutine waiting for a lock gets it.  Nothing makes the signal arrive,
\* a handler return or Poll return a message.
SpecWorkerFair ==
    /\ Init /\ [][NextWorker]_vars
    /\ WF_vars(WkCloseDone)
    /\ \A s \in Subs :
          /\ WF_vars(WkSubscribe(s))
          /\ SF_vars(LkSubscribeStep(s))
          /\ WF_vars(WkUnsubscribe(s))
          /\ SF_vars(LkUnsubscribeStepKafka(s))
          /\ WF_vars(WkGoroutineReturns(s))
          /\ SF_vars(LkLoopLockedStep(s))

\* Do called with arbitrary fn
NextTx ==
    \/ DoStart
    \/ DoBegin
    \/ DoFn
    \/ DoAfterFn
    \/ DoDeferred

SpecTx == Init /\ [][NextTx]_vars

\* the product service over Do, the storage, the cache and the broker
NextService ==
    \/ SvcCall
    \/ SvcCreateDo
    \/ DoBegin
    \/ DoFnSaveProduct
    \/ DoAfterFn
    \/ DoDeferred
    \/ SvcCreateAfterDo
    \/ SvcCreatePublish
    \/ SvcWrite
    \/ SvcInvalidate
    \/ SvcPublish
    \/ SvcGetProduct
    \/ SvcListProducts

SpecService == Init /\ [][NextService]_vars

\* the service together with the worker's event subscription
NextEvents ==
    \/ SvcCall
    \/ SvcCreateDo
    \/ DoBegin
    \/ DoFnSaveProduct
    \/ DoAfterFn
    \/ DoDeferred
    \/ SvcCreateAfterDo
    \/ SvcCreatePublish
    \/ SvcWrite
    \/ SvcInvalidate
    \/ SvcPublish
    \/ SvcGetProduct
    \/ SvcListProducts
    \/ WorkerEventHandler

SpecEvents == Init /\ [][NextEvents]_vars

\* the cache shared by the callers of several tenants
NextCache ==
    \/ CacheSetWithTenant
    \/ CacheDeleteWithTenant
    \/ CacheDeleteByPatternWithTenant
    \/ CacheInvalidate

SpecCache == Init /\ [][NextCache]_vars

\* publishers, subscriptions and their consumeMessages goroutines
NextConsumer ==
    \/ PublishWithKey
    \/ CancelCtx
    \/ \E s \in SoloSubs :
          \/ Subscribe(s)
          \/ LoopCtxDone(s)
          \/ LoopAllBrokersDown(s)
          \/ LoopOtherEvent(s)
          \/ LoopPollMessage(s)
          \/ LoopInvoke(s)
          \/ LoopHandlerReturn(s)
          \/ LoopBackoff(s)
          \/ UnsubDeleteHandler(s)
          \/ UnsubDeleteConsumer(s)
          \/ UnsubClose(s)

SpecConsumer == Init /\ [][NextConsumer]_vars

\* the steps of a running consumeMessages goroutine: it is scheduled, Poll
\* returns a message that is there, the handler returns, the sleep ends
LoopStep(s) ==
    \/ LoopCtxDone(s)
    \/ LoopPollMessage(s)
    \/ LoopInvoke(s)
    \/ LoopHandlerReturn(s)
    \/ LoopBackoff(s)

\* Publish without a key: the partition is the producer's choice
PublishNoKey == PublishUpTo(MaxMessages, {NoKey})

NextConsumerFair ==
    \/ PublishNoKey
    \/ CancelCtx
    \/ \E s \in SoloSubs :
          \/ Subscribe(s)
          \/ LoopCtxDone(s)
          \/ LoopAllBrokersDown(s)
          \/ LoopOtherEvent(s)
          \/ LoopPollMessage(s)
          \/ LoopInvoke(s)
          \/ LoopHandlerReturn(s)
          \/ LoopBackoff(s)
          \/ UnsubDeleteHandler(s)
          \/ UnsubDeleteConsumer(s)
          \/ UnsubClose(s)

SpecConsumerFair ==
    Init /\ [][NextConsumerFair]_vars /\ \A s \in Subs : WF_vars(LoopStep(s))

\* several subscriptions of one KafkaMessaging, their unsubscribe functions
\* and Close
\* header maps a caller gives to PublishWithHeaders: they already hold a
\* message_id or a timestamp
CallerHeaders ==
    {<< <<"message_id", 99>> >>, << <<"timestamp", 99>> >>}

\* The worker's command subscription: commands with one key, so that they
\* are in one partition, some with a value the handler cannot decode
PublishCommand ==
    PublishMessages(MaxCommands, {"k1"}, {Payload, Malformed}, {<<>>})

\* PublishWithHeaders: no key, the caller's headers
PublishWithHeaders ==
    PublishMessages(MaxCommands, {NoKey}, {Payload}, CallerHeaders)

\* PublishForTenant (tenant_id only) and PublishWithHeaders with the
\* tenant and trace of the request
TenantHeaders ==
    {<< <<"tenant_id", "A">> >>,
     << <<"tenant_id", "B">>, <<"trace_id", "T1">> >>}

PublishForTenant ==
    PublishMessages(MaxCommands, {NoKey}, {Payload}, TenantHeaders)

CommandFailPlans == {0, 1}

SubscribeCommands(s) == SubscribeWith(s, CommandFailPlans, BOOLEAN)

NextCommands ==
    \/ PublishCommand
    \/ PublishWithHeaders
    \/ PublishForTenant
    \/ CancelCtx
    \/ \E s \in SoloSubs :
          \/ SubscribeCommands(s)
          \/ LoopCtxDone(s)
          \/ LoopAllBrokersDown(s)
          \/ LoopOtherEvent(s)
          \/ LoopPollMessage(s)
          \/ LoopInvoke(s)
          \/ LoopHandlerReturn(s)
          \/ LoopBackoff(s)
          \/ UnsubDeleteHandler(s)
          \/ UnsubDeleteConsumer(s)
          \/ UnsubClose(s)

SpecCommands == Init /\ [][NextCommands]_vars

\* Publish with one key, so that every message is in one partition, and
\* handlers that fail the first attempt of a message
PublishShared == PublishUpTo(MaxSharedMessages, {"k1"})

SharedFailPlans == {1}

\* Subscribe calls are made while the messaging client is open
SubscribeShared(s) ==
    /\ closePc = "idle"
    /\ SubscribeWith(s, SharedFailPlans, {TRUE})


NextSubscriptions ==
    \/ PublishShared
    \/ CancelCtx
    \/ CloseConsumers
    \/ CloseProducer
    \/ \E s \in Subs :
          \/ SubscribeShared(s)
          \/ LoopCtxDone(s)
          \/ LoopAllBrokersDown(s)
          \/ LoopOtherEvent(s)
          \/ LoopPollMessage(s)
          \/ LoopInvoke(s)
          \/ LoopHandlerReturn(s)
          \/ LoopBackoff(s)
          \/ UnsubDeleteHandler(s)
          \/ UnsubDeleteConsumer(s)
          \/ UnsubClose(s)

SpecSubscriptions == Init /\ [][NextSubscriptions]_vars

SpecSubscriptionsFair ==
    Init /\ [][NextSubscriptions]_vars /\ \A s \in Subs : WF_vars(LoopStep(s))

(***************************************************************************)
(* Properties of pgxTxManager.Do (checked under SpecTx)                    *)
(***************************************************************************)
CallIndexes(op) == {i \in 1..Len(txCalls) : txCalls[i].op = op}
CallCount(op) == Cardinality(CallIndexes(op))
AppliedCount(op) ==
    Cardinality({i \in CallIndexes(op) : txCalls[i].applied})

BeginSucceeded == \E i \in CallIndexes("Begin") : txCalls[i].applied
BeginFailed == \E i \in CallIndexes("Begin") : ~txCalls[i].applied

\* e is err itself or wraps it (errors.Is)
ErrorIs(e, err) == \E i \in 1..Len(e) : SubSeq(e, i, Len(e)) = err

FnReturnedNil == fnResult.kind = "return" /\ fnResult.err = NilErr
FnReturnedError == fnResult.kind = "return" /\ fnResult.err # NilErr

\* C1 as stated: once Do has returned after a successful Begin, fn = nil
\* means exactly one Commit call and no Rollback call on the transaction,
\* and fn = error means exactly one Rollback call and no Commit call.
C1_CallsAsStated ==
    (doPc = "returned" /\ BeginSucceeded) =>
        /\ FnReturnedNil => (CallCount("Commit") = 1 /\ CallCount("Rollback") = 0)
        /\ FnReturnedError => (CallCount("Rollback") = 1 /\ CallCount("Commit") = 0)

\* C1 amended: once Do has returned after a successful Begin, fn = nil means
\* exactly one Commit call followed by exactly one Rollback call (the
\* deferred one), which changes nothing when the Commit succeeded; fn = error
\* means no Commit call and exactly two Rollback calls, of which only the
\* first acts on the transaction.
C1_CommitOrRollback ==
    (doPc = "returned" /\ BeginSucceeded) =>
        /\ FnReturnedNil =>
             /\ CallCount("Commit") = 1
             /\ CallCount("Rollback") = 1
             /\ txCalls[Len(txCalls)].op = "Rollback"
             /\ AppliedCount("Commit") = 1 =>
                  (AppliedCount("Rollback") = 0 /\ txState = "Committed")
             /\ AppliedCount("Commit") = 0 => txState = "RolledBack"
        /\ FnReturnedError =>
             /\ CallCount("Commit") = 0
             /\ CallCount("Rollback") = 2
             /\ AppliedCount("Rollback") = 1
             /\ txCalls[2].op = "Rollback" /\ txCalls[2].applied
             /\ txState = "RolledBack"

C1_Witness ==
    /\ doPc = "returned"
    /\ FnReturnedNil
    /\ txState = "Committed"
    /\ CallCount("Rollback") = 1

\* C9: when fn returned the error e, Do returns exactly e, whether the
\* Rollback that follows succeeded or failed.
C9_ReturnsFnError ==
    (doPc \in {"deferred", "returned"} /\ FnReturnedError) =>
        doResult = Ret(fnResult.err)

C9_Witness ==
    /\ doPc = "returned"
    /\ FnReturnedError
    /\ \E i \in CallIndexes("Rollback") : txCalls[i].err = RollbackErr

\* C10: when Begin fails, Do returns the begin error (wrapped with %w) at
\* once: fn is never invoked and neither Commit nor Rollback is called.
C10_BeginFailureShortCircuits ==
    BeginFailed =>
        /\ doPc = "returned"
        /\ doResult.kind = "return"
        /\ ErrorIs(doResult.err, BeginErr)
        /\ fnCalls = 0
        /\ fnResult = NoResult
        /\ CallCount("Commit") = 0
        /\ CallCount("Rollback") = 0

C10_Witness == doPc = "returned" /\ BeginFailed

(***************************************************************************)
(* Properties of the write-then-publish glue (checked under SpecService)   *)
(***************************************************************************)
Mutating == svcArg.op \in {"Create", "Update", "Delete"}

\* the change events the running call has published
OwnEvents == {m \in TopicMessages("product-events") : m.value.call = svcArg.call}

\* the storage holds the running call's write
WriteCommitted ==
    /\ svcErr = NilErr
    /\ svcArg.op = "Create" => (txState = "Committed" /\ db[svcArg.product] = svcArg.call)
    /\ svcArg.op = "Update" => db[svcArg.product] = svcArg.call
    /\ svcArg.op = "Delete" => db[svcArg.product] = 0

\* the storage holds nothing of the running call's write
WriteAbsent ==
    svcArg.op \in {"Create", "Update"} => db[svcArg.product] # svcArg.call

\* C2: a change event of CreateProduct / UpdateProduct / DeleteProduct is in
\* the broker only once the call's storage write is committed; when the
\* write failed or was rolled back the call publishes nothing and returns
\* an error.
C2_PublishOnlyAfterCommit ==
    Mutating =>
        /\ OwnEvents # {} => WriteCommitted
        /\ (svcPc = "done" /\ svcErr # NilErr) =>
             /\ OwnEvents = {}
             /\ WriteAbsent
             /\ svcResult.kind = "return"
             /\ svcResult.err # NilErr
             /\ ErrorIs(svcResult.err, svcErr)

C2_Witness ==
    /\ svcPc = "done"
    /\ svcArg.op = "Create"
    /\ OwnEvents # {}
    /\ svcCount = 2

\* C7: when the unit of work of a mutation committed and Publish then
\* failed, the storage still holds the write (nothing is rolled back or
\* compensated), the failure is logged and the call returns success.
C7_CommitSurvivesPublishFailure ==
    (Mutating /\ svcPc = "done" /\ svcErr = NilErr /\ svcPublishErr # NilErr) =>
        /\ WriteCommitted
        /\ OwnEvents = {}
        /\ svcResult = SvcOk
        /\ svcArg.op = "Create" =>
             /\ svcLog[Len(svcLog)] = "error: publish"
             /\ AppliedCount("Commit") = 1
             /\ AppliedCount("Rollback") = 0

C7_Witness ==
    /\ svcPc = "done"
    /\ svcArg.op = "Create"
    /\ svcErr = NilErr
    /\ svcPublishErr # NilErr
    /\ db[svcArg.product] = svcArg.call

(***************************************************************************)
(* Properties of consumeMessages and unsubscribe (checked under            *)
(* SpecConsumer)                                                           *)
(***************************************************************************)
PublishedIds == 1..(nextUuid - 1)

\* the handler of s was invoked for the message and the loop has moved on
Processed(s, id) == Invocations(s, id) # {} /\ curMsg[s].id # id

InvocationCount(s, id) == Cardinality(Invocations(s, id))

\* the dead-letter records made for a message
DeadLetterRecords(id) ==
    {d \in TopicMessages("dead-letter") : d.value.original_message.id = id}

\* C3: a consumed message whose handler fails on every attempt is given to
\* the handler exactly maxRetries times, and then exactly one dead-letter
\* record with retry_count = maxRetries and the handler's final error is in
\* the dead-letter topic.
C3_DeadLetterAfterMaxRetries ==
    \A s \in Subs, id \in PublishedIds :
        (Processed(s, id) /\ handlerFails[s] >= maxRetries)
            => /\ InvocationCount(s, id) = maxRetries
               /\ Cardinality(DeadLetterRecords(id)) = 1
               /\ \A d \in DeadLetterRecords(id) :
                      /\ d.value.retry_count = maxRetries
                      /\ d.value.error = HandlerErr

\* C4: a consumed message whose handler fails k times (k < maxRetries) and
\* then succeeds is given to the handler exactly k + 1 times, and no
\* dead-letter record is made for it.
C4_RetriedUntilSuccess ==
    \A s \in Subs, id \in PublishedIds :
        (Processed(s, id) /\ handlerFails[s] <= maxRetries - 1)
            => /\ InvocationCount(s, id) = handlerFails[s] + 1
               /\ DeadLetterRecords(id) = {}

\* C5: once the unsubscribe function of a subscription has returned, no
\* invocation of its handler starts, a retry attempt included.
C5_NoInvocationAfterUnsubscribe ==
    [][\A s \in Subs :
           unsubPc[s] = "returned" => Len(handlerLog'[s]) <= Len(handlerLog[s])]_vars

Deleting == {"InvalidateCache", "DeleteByPatternWithTenant", "DeleteWithTenant"}

\* C6: InvalidateCache, DeleteByPatternWithTenant and DeleteWithTenant called
\* for one tenant id (the empty id included) never delete a key that was
\* written through the tenant-scoped operations for another tenant id.
C6_TenantIsolation ==
    [][cacheCall'.op \in Deleting
           => \A k \in DOMAIN cache \ DOMAIN cache' :
                  cache[k].tenant = cacheCall'.tenant]_vars

(***************************************************************************)
(* Further properties of pgxTxManager.Do (checked under SpecTx)            *)
(***************************************************************************)
CommitFailed == \E i \in CallIndexes("Commit") : txCalls[i].err # NilErr

\* C11: when fn returned nil and Commit failed, Do returns the commit error
\* (wrapped with %w), a Rollback call follows the Commit call before Do
\* returns, and the transaction is not left Open.
C11_CommitFailureRollsBack ==
    (doPc = "returned" /\ FnReturnedNil /\ CommitFailed) =>
        /\ doResult = Ret(Wrap("tx.Commit failed", CommitErr))
        /\ ErrorIs(doResult.err, CommitErr)
        /\ \E i \in CallIndexes("Commit"), j \in CallIndexes("Rollback") : i < j
        /\ txState = "RolledBack"

\* the Commit failed with the transaction still open, and the deferred
\* Rollback ended it
C11_Witness ==
    /\ doPc = "returned"
    /\ FnReturnedNil
    /\ CommitFailed
    /\ AppliedCount("Rollback") = 1

\* C12: when fn panics, no Commit is issued, and exactly one Rollback is
\* issued and ends the transaction before the panic leaves Do.
C12_PanicRollsBack ==
    /\ fnResult.kind = "panic" => CallCount("Commit") = 0
    /\ (doPc = "returned" /\ fnResult.kind = "panic") =>
          /\ doResult = Panic
          /\ CallCount("Rollback") = 1
          /\ AppliedCount("Rollback") = 1
          /\ txState = "RolledBack"

C12_Witness ==
    /\ doPc = "returned"
    /\ fnResult.kind = "panic"
    /\ txCalls[Len(txCalls)].op = "Rollback"

TerminalStates == {"Committed", "RolledBack"}

\* the transitions of one unit of work; a new call of Do starts a new one
TxTransitions ==
    {<<"Idle", "Open">>, <<"Open", "Committed">>, <<"Open", "RolledBack">>}

\* C13: a unit of work goes Idle -> Open -> one of Committed, RolledBack and
\* never leaves a terminal state; it is never both committed and rolled
\* back; when Do returns after a successful Begin the state is terminal,
\* and it is Committed exactly when Do returned nil.
C13_OneTerminalTransition ==
    /\ [][txState' # txState =>
            \/ <<txState, txState'>> \in TxTransitions
            \/ (doCount' # doCount /\ txState' = "Idle")]_vars
    /\ [](~(AppliedCount("Commit") > 0 /\ AppliedCount("Rollback") > 0))
    /\ []((doPc = "returned" /\ BeginSucceeded) =>
            /\ txState \in TerminalStates
            /\ txState = "Committed" <=> doResult = Ret(NilErr))

\* Do has returned nil with the transaction committed, the deferred
\* Rollback having been called on it
C13_Witness ==
    /\ doPc = "returned"
    /\ txState = "Committed"
    /\ doResult = Ret(NilErr)
    /\ CallCount("Rollback") = 1

\* C14: the writes fn makes through the storage with the child context are
\* held by the transaction: when Do returns an error or panics none of them
\* is in the committed rows, and when Do returns nil all of them are.
C14_WritesFollowTransaction ==
    (doPc = "returned" /\ BeginSucceeded) =>
        IF doResult = Ret(NilErr)
        THEN \A w \in fnWrites : db[w[1]] = w[2]
        ELSE \A w \in fnWrites : db[w[1]] # w[2]

(***************************************************************************)
(* Progress and termination of consumeMessages (checked under              *)
(* SpecConsumerFair)                                                       *)
(***************************************************************************)
MessageIds == 1..MaxMessages

\* the message is in the log behind the position of the consumer of s
Pending(s, id) ==
    /\ subImpl[s] # "none"
    /\ \E p \in Partitions :
         \E i \in 1..Len(brokerLog[ConsumedTopic][p]) :
             i > offsets[s][p] /\ brokerLog[ConsumedTopic][p][i].id = id

\* the subscription was cancelled or its loop was ended by a fatal error
Stopped(s) == ctxDone \/ loopPc[s] = "exited" \/ unsubPc[s] # "idle"

\* C15: a message whose processing failed for good does not halt the
\* subscription: every message waiting for the consumer is eventually given
\* to the handler, unless the subscription is cancelled or its loop ended
\* by a fatal broker error.
C15_FailureDoesNotHaltLoop ==
    \A s \in SoloSubs : \A id \in MessageIds :
        Pending(s, id) ~> (Invocations(s, id) # {} \/ Stopped(s))

\* a message was given up after the handler failed every attempt, and a
\* later message was given to the handler
C15_Witness ==
    \E s \in Subs : \E a, b \in PublishedIds :
        /\ a # b
        /\ Processed(s, a)
        /\ \A i \in Invocations(s, a) : handlerLog[s][i].result = "error"
        /\ \E i \in Invocations(s, a), j \in Invocations(s, b) : i < j

\* C16: once the unsubscribe of a subscription has returned, the broker
\* consumer of that subscription is closed and its processing loop
\* eventually terminates.
C16_UnsubscribeStopsLoop ==
    \A s \in Subs :
        /\ [](unsubPc[s] = "returned" => s \in closedConsumers)
        /\ (unsubPc[s] = "returned" ~> loopPc[s] = "exited")

\* what a subscription owns: its registry entries and the state of its loop
SubscriptionState(s) ==
    [handler |-> s \in handlers, consumer |-> s \in consumers,
     closed |-> s \in closedConsumers, impl |-> subImpl[s],
     loop |-> loopPc[s], msg |-> curMsg[s], attempt |-> attempt[s],
     offsets |-> offsets[s], acked |-> acked[s], log |-> handlerLog[s],
     unsub |-> unsubPc[s]]

SubscriptionStateNext(s) ==
    [handler |-> s \in handlers', consumer |-> s \in consumers',
     closed |-> s \in closedConsumers', impl |-> subImpl'[s],
     loop |-> loopPc'[s], msg |-> curMsg'[s], attempt |-> attempt'[s],
     offsets |-> offsets'[s], acked |-> acked'[s], log |-> handlerLog'[s],
     unsub |-> unsubPc'[s]]

\* C17: every step of the unsubscribe of one subscription leaves the
\* registered handler, the consumer handle and the running loop of every
\* other subscription as they were; all subscriptions are on one topic.
C17_UnsubscribeIsIndependent ==
    [][\A s1, s2 \in Subs :
          (s1 # s2 /\ unsubPc'[s1] # unsubPc[s1])
              => SubscriptionStateNext(s2) = SubscriptionState(s2)]_vars

\* one subscription was unsubscribed while the handler of another one on
\* the same topic was running, and the other one is still registered
C17_Witness ==
    \E s1, s2 \in Subs :
        /\ s1 # s2
        /\ unsubPc[s1] = "returned"
        /\ s1 \in closedConsumers
        /\ s2 \in handlers /\ s2 \in consumers /\ s2 \notin closedConsumers
        /\ loopPc[s2] = "handler"

\* the subscription was made and its consumeMessages goroutine was started
Outstanding(s) == loopPc[s] # "none"

\* no consumer and no handler is registered once Close returned
NothingRegisteredAfterClose ==
    closePc = "returned" => (consumers = {} /\ handlers = {})

\* the consumer registry alone is empty once Close returned
NoConsumerAfterClose ==
    closePc = "returned" => consumers = {}

\* no handler invocation starts once Close returned
NoInvocationAfterClose ==
    [][closePc = "returned" =>
         \A s \in Subs : Len(handlerLog'[s]) = Len(handlerLog[s])]_vars

\* the loop of every outstanding subscription ends once Close returned
LoopsEndAfterClose ==
    \A s \in Subs :
        (closePc = "returned" /\ Outstanding(s)) ~> loopPc[s] = "exited"

\* C18: after Close returned no consumer and no handler is registered, no
\* handler invocation starts any more, and the loop of every outstanding
\* subscription eventually terminates.
C18_CloseCancelsSubscriptions ==
    /\ []NothingRegisteredAfterClose
    /\ NoInvocationAfterClose
    /\ LoopsEndAfterClose

\* with the context cancelled, a loop at its select takes no message
NoPollAfterCancel ==
    [][\A s \in Subs :
          (ctxDone /\ loopPc[s] = "select") => offsets'[s] = offsets[s]]_vars

\* with the context cancelled, every outstanding loop ends
LoopEndsAfterCancel ==
    \A s \in Subs : (ctxDone /\ Outstanding(s)) ~> loopPc[s] = "exited"

\* the exit on the cancelled context closes the consumer of the loop
ConsumerReleasedOnCancel ==
    [][\A s \in Subs :
          (ctxDone /\ loopPc[s] # "exited" /\ loopPc'[s] = "exited")
              => s \in closedConsumers']_vars

\* C19: once the context of a subscription is cancelled its loop polls no
\* further message, terminates even when the handler keeps failing, and
\* the broker consumer is closed as part of that exit.
C19_CancelStopsAndReleases ==
    /\ NoPollAfterCancel
    /\ LoopEndsAfterCancel
    /\ ConsumerReleasedOnCancel

\* the step ends the loop of s
LoopExits(s) == loopPc[s] # "exited" /\ loopPc'[s] = "exited"

\* C20: a loop that observed the fatal broker error (all brokers down) has
\* terminated; while the context is not cancelled a loop terminates only in
\* a step in which it observes that error, and no other loop terminates in
\* that step: no other broker event and no handler failure ends a loop.
C20_OnlyFatalErrorEndsLoop ==
    /\ [](\A s \in Subs : lastEvent[s] = "fatal" => loopPc[s] = "exited")
    /\ [][\A s \in Subs :
            (LoopExits(s) /\ ~ctxDone)
                => /\ lastEvent'[s] = "fatal"
                   /\ \A s2 \in Subs \ {s} : loopPc'[s2] = loopPc[s2]]_vars

\* the fatal error ended one loop while another subscription, whose
\* handler had failed and which had seen another broker event, polls on
C20_Witness ==
    \E s1, s2 \in Subs :
        /\ s1 # s2
        /\ ~ctxDone
        /\ lastEvent[s1] = "fatal" /\ loopPc[s1] = "exited"
        /\ lastEvent[s2] = "other" /\ loopPc[s2] = "select"
        /\ \E i \in 1..Len(handlerLog[s2]) : handlerLog[s2][i].result = "error"

\* the subscription commits by hand: SubscribeWithConfig, AutoCommit false
ManualCommit(s) == subImpl[s] = "kafka" /\ ~subAutoCommit[s]

\* the handler of s returned an error from every invocation for the message
HandlerFailed(s, id) ==
    /\ Invocations(s, id) # {}
    /\ \A i \in Invocations(s, id) : handlerLog[s][i].result = "error"

\* the handler of s returned nil for the message
HandlerSucceeded(s, id) ==
    \E i \in Invocations(s, id) : handlerLog[s][i].result = "ok"

\* a message whose handler failed is not acknowledged
FailedNeverAcked ==
    \A s \in Subs : \A id \in PublishedIds :
        (ManualCommit(s) /\ HandlerFailed(s, id)) => id \notin acked[s]

\* a message whose handler succeeded is acknowledged
SucceededIsAcked ==
    \A s \in Subs : \A id \in PublishedIds :
        (ManualCommit(s) /\ HandlerSucceeded(s, id)) => id \in acked[s]

\* C21: in manual-commit mode a message is acknowledged to the broker only
\* after its handler returned success: no message whose handler failed is
\* acknowledged, and every message whose handler succeeded is.
C21_AckOnlyAfterSuccess == FailedNeverAcked /\ SucceededIsAcked

\* the invocation at index i of the log of s is the how-manieth for its message
InvocationRank(s, i) ==
    Cardinality({j \in Invocations(s, handlerLog[s][i].id) : j <= i})

\* a message that was polled and not yet given to the handler has attempt 0
DeliveredWithAttemptZero ==
    \A s \in Subs :
        (loopPc[s] = "invoke" /\ Invocations(s, curMsg[s].id) = {})
            => curMsg[s].attempts = 0

\* the i-th invocation for a message observes attempt = i, for the
\* subscriptions of one adapter
AttemptIsRank(impl) ==
    \A s \in Subs :
        subImpl[s] = impl =>
            \A i \in 1..Len(handlerLog[s]) :
                handlerLog[s][i].attempts = InvocationRank(s, i)

\* C22: a message is delivered with attempt 0 and the consumer increments
\* attempt before each handler invocation: the i-th invocation for a
\* message observes attempt = i.
C22_AttemptCountsInvocations ==
    /\ DeliveredWithAttemptZero
    /\ \A impl \in Impls : AttemptIsRank(impl)

\* the same for the loop of part_009 alone
AttemptIsRankPart009 == AttemptIsRank("part009")

\* the step in which a mutating operation returns success
MutationReturnsOk ==
    svcPc # "done" /\ svcPc' = "done" /\ svcResult' = SvcOk

\* neither the entry of the mutated product nor a list entry of the tenant
\* is in the cache after the step
InvalidatedAtReturn ==
    /\ BuildKey(ProductCacheKey(SvcTenant, SvcSupplier, Str(svcArg.product)),
                SvcTenant) \notin DOMAIN cache'
    /\ \A k \in DOMAIN cache' : ~Match(BuildKey(ListPattern, SvcTenant), k)

\* C23: when a product mutation returns success, the cache entry of the
\* product and every list-level cache entry of the tenant are deleted.
C23_MutationInvalidatesCache ==
    [][MutationReturnsOk => InvalidatedAtReturn]_vars

\* the same for DeleteProduct alone
DeleteInvalidatesCache ==
    [][(MutationReturnsOk /\ svcArg.op = "Delete") => InvalidatedAtReturn]_vars

\* the raw key under which GetProduct caches a product of the tenant
ReadPathKey(tenantID, productID) ==
    BuildKey(ProductCacheKey(tenantID, SvcSupplier, productID), tenantID)

\* the step in which eventHandler has handled a change event
EventHandled == cacheCall' # cacheCall /\ cacheCall'.op = "eventHandler"

\* C24: after the worker handled a change event for a product of a tenant,
\* the cache entry GetProduct wrote for that product is not present.
C24_EventDeletesReadPathEntry ==
    [][EventHandled =>
         ReadPathKey(cacheCall'.tenant, cacheCall'.product) \notin DOMAIN cache']_vars

ReservedKeys == {"message_id", "timestamp"}

\* the positions of the headers with this name
HeaderPositions(headers, name) ==
    {i \in 1..Len(headers) : headers[i][1] = name}

\* the headers the caller supplied: all but the two messageToKafkaMessage
\* appended
SuppliedHeaders(m) == SubSeq(m.headers, 1, Len(m.headers) - 2)

\* every published message has one value for each reserved key
OneValuePerReservedKey ==
    \A m \in TopicMessages(ConsumedTopic) : \A name \in ReservedKeys :
        Cardinality(HeaderPositions(m.headers, name)) = 1

\* a message_id or timestamp the caller supplied is what the consumer reads
SuppliedValueReachesConsumer ==
    \A m \in TopicMessages(ConsumedTopic) : \A name \in ReservedKeys :
        \A i \in HeaderPositions(SuppliedHeaders(m), name) :
            HeaderValue(m.headers, name, 0) = m.headers[i][2]

\* the ids generated by different publish calls differ
GeneratedIdsDistinct ==
    \A p1, p2 \in Partitions :
        \A i \in 1..Len(brokerLog[ConsumedTopic][p1]) :
            \A j \in 1..Len(brokerLog[ConsumedTopic][p2]) :
                (<<p1, i>> # <<p2, j>>) =>
                    brokerLog[ConsumedTopic][p1][i].headers[
                        Len(brokerLog[ConsumedTopic][p1][i].headers) - 1][2]
                    # brokerLog[ConsumedTopic][p2][j].headers[
                        Len(brokerLog[ConsumedTopic][p2][j].headers) - 1][2]

\* C25: a published message carries exactly one value for message_id and
\* for timestamp, a value the caller supplied for one of them reaches the
\* consumer unchanged, and generated message ids are distinct.
C25_ReservedHeadersOnlyWhenAbsent ==
    /\ OneValuePerReservedKey
    /\ SuppliedValueReachesConsumer
    /\ GeneratedIdsDistinct

\* the step is an administrative call the broker answered
AdminAnswered == adminCount' # adminCount /\ adminCall'.answered

\* CreateTopic on an existing topic returns no error and changes nothing
CreateExistingIsNoError ==
    [][(AdminAnswered /\ adminCall'.op = "CreateTopic" /\ adminCall'.existed)
          => (adminCall'.err = NilErr /\ brokerTopics' = brokerTopics)]_vars

\* DeleteTopic on an absent topic returns no error and changes nothing
DeleteAbsentIsNoError ==
    [][(AdminAnswered /\ adminCall'.op = "DeleteTopic" /\ ~adminCall'.existed)
          => (adminCall'.err = NilErr /\ brokerTopics' = brokerTopics)]_vars

\* the topic set is left unchanged by creating an existing topic and by
\* deleting an absent one
RepeatLeavesTopicsUnchanged ==
    [][(AdminAnswered /\
        (adminCall'.existed <=> adminCall'.op = "CreateTopic"))
          => brokerTopics' = brokerTopics]_vars

\* C26: CreateTopic of a topic that exists and DeleteTopic of a topic that
\* does not exist return no error and leave the topic set unchanged.
C26_TopicAdminIdempotent ==
    CreateExistingIsNoError /\ DeleteAbsentIsNoError

\* fn of the current Do has run its inner Do
InnerDoRan == fnCalls = 1 /\ doPc \in {"afterFn", "deferred", "returned"}

\* the inner Do begins no transaction of its own
NoSecondBegin ==
    InnerDoRan => \A i \in DOMAIN innerCalls : innerCalls[i].op # "Begin"

\* the inner Do leaves the outer transaction open
InnerLeavesOuterOpen ==
    (fnCalls = 1 /\ doPc = "afterFn") => txState = "Open"

\* the outer transaction was committed
OuterCommitted ==
    \E i \in DOMAIN txCalls : txCalls[i].op = "Commit" /\ txCalls[i].applied

\* what the inner fn wrote is part of the outer transaction: it is not
\* visible unless the outer transaction committed
InnerWritesFollowOuter ==
    (InnerDoRan /\ ~OuterCommitted)
        => \A wr \in innerWrites : db[wr[1]] # wr[2]

\* C27: a Do called from inside fn reuses the open transaction: it begins
\* no second transaction, its writes belong to the outer transaction, and
\* it neither commits nor rolls back the outer transaction.
C27_ReentrantDoReusesTransaction ==
    NoSecondBegin /\ InnerWritesFollowOuter /\ InnerLeavesOuterOpen

\* the published messages whose value the handler cannot decode
UndecodableIds ==
    {m.id : m \in {m \in TopicMessages(ConsumedTopic) : m.value = Malformed}}

\* a message that failed with the decode error is given to the handler once
DecodeErrorNotRetried ==
    \A s \in SoloSubs : \A id \in UndecodableIds :
        Processed(s, id) => InvocationCount(s, id) = 1

\* a message that failed with the decode error is in the dead-letter topic
\* once the loop has moved on
DecodeErrorDeadLettered ==
    \A s \in SoloSubs : \A id \in UndecodableIds :
        Processed(s, id) => DeadLetterRecords(id) # {}

\* C28: a message whose handler returns a decode error is not retried: the
\* handler is invoked exactly once for it and the message is routed to the
\* dead-letter topic.
C28_DecodeErrorSkipsRetries ==
    DecodeErrorNotRetried /\ DecodeErrorDeadLettered

\* the published message an invocation was made for
PublishedMessage(id) ==
    CHOOSE m \in TopicMessages(ConsumedTopic) : m.id = id

\* the context of every invocation carries the tenant_id and trace_id
\* headers of the message it was invoked for
ContextFromHeaders ==
    \A s \in SoloSubs : \A i \in DOMAIN handlerLog[s] :
        LET inv == handlerLog[s][i]
            headers == PublishedMessage(inv.id).headers
        IN /\ inv.ctx.tenant_id = HeaderValue(headers, "tenant_id", "")
           /\ inv.ctx.trace_id = HeaderValue(headers, "trace_id", "")

\* no context carries a value that only another message has
NoValueOfAnotherMessage ==
    \A s \in SoloSubs : \A i \in DOMAIN handlerLog[s] :
        LET inv == handlerLog[s][i]
            headers == PublishedMessage(inv.id).headers
        IN /\ inv.ctx.tenant_id \in {"", HeaderValue(headers, "tenant_id", "")}
           /\ inv.ctx.trace_id \in {"", HeaderValue(headers, "trace_id", "")}

\* C29: the handler is invoked with a per-message context whose tenant id
\* and trace id are the message's tenant_id and trace_id headers, and no
\* value of one message appears in the context of another.
C29_PerMessageContext ==
    ContextFromHeaders /\ NoValueOfAnotherMessage

RECURSIVE Exp2(_)
Exp2(n) == IF n = 0 THEN 1 ELSE 2 * Exp2(n - 1)

\* the invocations of s after which the loop slept
SleptAfter(s) == {i \in DOMAIN handlerLog[s] : handlerLog[s][i].slept > 0}

\* the attempt number (from 0) of an invocation of the retry loop
AttemptNumber(inv) == inv.attempts - 1

\* a sleep that is followed by another attempt lasts base * 2^attempt
DelayBetweenAttemptsIsExponential ==
    \A s \in SoloSubs : \A i \in SleptAfter(s) :
        AttemptNumber(handlerLog[s][i]) + 1 < maxRetries
            => handlerLog[s][i].slept
                   = BackoffStep * Exp2(AttemptNumber(handlerLog[s][i]))

\* every sleep lasts base * 2^attempt
DelayIsExponential ==
    \A s \in SoloSubs : \A i \in SleptAfter(s) :
        handlerLog[s][i].slept = BackoffStep * Exp2(AttemptNumber(handlerLog[s][i]))

\* no sleep follows a successful attempt
NoSleepAfterSuccess ==
    \A s \in SoloSubs : \A i \in SleptAfter(s) : handlerLog[s][i].result = "error"

\* no sleep follows the last allowed attempt
NoSleepAfterLastAttempt ==
    \A s \in SoloSubs : \A i \in SleptAfter(s) :
        AttemptNumber(handlerLog[s][i]) + 1 < maxRetries

\* C30: the delay slept after a failed attempt is base * 2^attempt, and a
\* sleep happens only between attempts: none after a successful attempt
\* and none after the last allowed attempt.
C30_ExponentialBackoffBetweenAttempts ==
    /\ DelayBetweenAttemptsIsExponential
    /\ NoSleepAfterSuccess
    /\ NoSleepAfterLastAttempt

\* the keys of a store that match the pattern
Matching(store, pattern) == {k \in store : Match(pattern, k)}

\* a call that returned nil has removed every key that matched
MatchingKeysRemoved ==
    (scanCall # NoScanCall /\ ~scanCall.failed)
        => Matching(scanStore, scanCall.pattern) = {}

\* no key that does not match is removed, whatever the call returned
OtherKeysKept ==
    scanCall # NoScanCall
        => (scanCall.before \ Matching(scanCall.before, scanCall.pattern))
               \subseteq scanStore

\* every Del carries at most 100 keys
BatchesBounded ==
    \A b \in DOMAIN scanCall.sizes : scanCall.sizes[b] <= scanCount

C31_WitnessExact ==
    /\ Cardinality(Matching(scanCall.before, scanCall.pattern)) = scanCount
    /\ scanCall.sizes = <<scanCount>>

\* BeginTx succeeded for the caller
BeginTxSucceeded == stImpl # "none" /\ stTxState # "Idle"

\* CommitTx and RollbackTx called with the returned context find the
\* transaction
EndCallsFindTransaction ==
    (BeginTxSucceeded /\ stCall.op \in {"CommitTx", "RollbackTx"})
        => stCall.err # ErrNoTx

\* a storage call made with the returned context runs in the transaction
StorageCallsRunInTransaction ==
    (BeginTxSucceeded /\ stCall.op = "SaveProduct") => stCall.executor = "tx"

\* a CommitTx or RollbackTx that was called on the open transaction and
\* returned nil has ended it, and no other call leaves it ended
EndCallsEndTransaction ==
    [][(BeginTxSucceeded /\ stTxState = "Open" /\ stCount' # stCount
        /\ stCall'.op \in {"CommitTx", "RollbackTx"} /\ stCall'.err = NilErr)
          => stTxState' \in {"Committed", "RolledBack"}]_vars

\* C32: the context returned by a successful BeginTx carries the
\* transaction: CommitTx and RollbackTx called with it act on it, storage
\* calls made with it run inside it, and the transaction can be ended.
C32_BeginTxContextCarriesTransaction ==
    EndCallsFindTransaction /\ StorageCallsRunInTransaction

\* the same for the PostgresRepository adapter alone
C32_HoldsForRepository ==
    stImpl = "PostgresRepository"
        => (EndCallsFindTransaction /\ StorageCallsRunInTransaction)

\* the wrapped handler is invoked exactly for the messages of the tenant
OnlyOwnTenantInvoked ==
    \A s \in SoloSubs : \A i \in DOMAIN handlerLog[s] :
        subTenant[s].filtered
            => (handlerLog[s][i].passedOn
                    <=> handlerLog[s][i].tenantID = subTenant[s].tenant)

\* a message of another tenant counts as processed: no error, no retry
OtherTenantSkippedAsSuccess ==
    \A s \in SoloSubs : \A i \in DOMAIN handlerLog[s] :
        ~handlerLog[s][i].passedOn
            => /\ handlerLog[s][i].result \in {"running", "ok"}
               /\ InvocationCount(s, handlerLog[s][i].id) = 1

\* C33: a handler registered through SubscribeForTenant(topic, handler, T)
\* is invoked only for messages whose tenant_id header is T; a message of
\* another tenant is skipped without invoking it and counts as processed.
C33_TenantHandlerFilters ==
    OnlyOwnTenantInvoked /\ OtherTenantSkippedAsSuccess

\* one message of another tenant was skipped as a success and one message
\* of the subscription's tenant was passed on to the handler
C33_Witness ==
    \E s \in SoloSubs : \E i, j \in DOMAIN handlerLog[s] :
        /\ subTenant[s].filtered
        /\ ~handlerLog[s][i].passedOn
        /\ handlerLog[s][i].result = "ok"
        /\ handlerLog[s][i].tenantID \notin {"", subTenant[s].tenant}
        /\ handlerLog[s][j].passedOn
        /\ handlerLog[s][j].tenantID = subTenant[s].tenant

\* no call is in progress
AllCallsReturned ==
    /\ \A g \in GetCalls : getPc[g] \in {"idle", "returned"}
    /\ \A u \in MutCalls : mutPc[u] \in {"idle", "returned"}

\* the cache entry of the product, if there is one, is the stored row
CacheAgreesWithStorage ==
    LET raw == BuildKey(RaceCacheKey, SvcTenant)
    IN raw \in DOMAIN cache => cache[raw].version = db[RaceProduct]

\* C34: for any interleaving of concurrent GetProduct and UpdateProduct or
\* DeleteProduct calls on one product, once all calls have returned the
\* cache holds no entry for it that differs from the row in storage.
C34_CacheAgreesAfterConcurrentCalls ==
    AllCallsReturned => CacheAgreesWithStorage

\* the step is a consumer.Poll of the loop of s that returned an event
PollStep(s) == loopPc[s] = "select" /\ lastEvent'[s] # lastEvent[s]

\* the step is a consumer.CommitMessage of the loop of s
CommitStep(s) ==
    /\ loopPc[s] = "handler"
    /\ loopPc'[s] # "handler"
    /\ ManualCommit(s)
    /\ handlerLog'[s][Len(handlerLog'[s])].result = "ok"

\* the loop of a subscription does not poll a closed consumer
NoPollOnClosedConsumer ==
    [][\A s \in SoloSubs : PollStep(s) => s \notin closedConsumers]_vars

\* the loop of a subscription does not commit on a closed consumer
NoCommitOnClosedConsumer ==
    [][\A s \in SoloSubs : CommitStep(s) => s \notin closedConsumers]_vars

\* C35: no consumer loop polls, and no acknowledgment is sent on, a broker
\* consumer after it has been closed by unsubscribe or by Close.
C35_NoUseOfClosedConsumer ==
    NoPollOnClosedConsumer /\ NoCommitOnClosedConsumer

\* a Subscribe call that was made returns
SubscribeReturns ==
    \A s \in Subs : (subPc[s] # "idle") ~> (subPc[s] = "returned")

\* an unsubscribe call that was made returns
UnsubscribeReturns ==
    \A s \in Subs : (unsubPc[s] # "idle") ~> (unsubPc[s] = "returned")

\* a Close call that was made returns
CloseReturns == (closePc # "idle") ~> (closePc = "returned")

\* C36: concurrent Subscribe, unsubscribe and Close calls and the running
\* loops never deadlock on handlersMutex and consumersMutex: every call
\* that was made returns, also while a handler invocation is in progress.
C36_RegistryCallsReturn ==
    SubscribeReturns /\ UnsubscribeReturns /\ CloseReturns

\* unsubscribe and Close have returned while the handler of that
\* subscription is still running
C36_Witness ==
    \E s \in Subs :
        /\ loopPc[s] = "handler"
        /\ unsubPc[s] = "returned"
        /\ closePc = "returned"
        /\ \E t \in Subs \ {s} : subPc[t] = "returned"

\* a Subscribe call that returned an error has nothing registered and no loop
FailedSubscribeLeavesNothing ==
    \A s \in Subs :
        (subPc[s] = "returned" /\ subErr[s] # NilErr) =>
            /\ s \notin handlers
            /\ s \notin consumers
            /\ loopPc[s] = "none"

\* a Subscribe call returns an error exactly if the consumer could not be
\* created or could not subscribe to the topic
SubscribeErrorIsReported ==
    \A s \in Subs :
        subPc[s] \in {"lockCleanup", "cleanup"} => subErr[s] # NilErr

\* no step of a Subscribe call touches what is registered for another
\* subscription
SubscribeKeepsOtherEntries ==
    [][\A s \in Subs :
          subPc'[s] # subPc[s] =>
              /\ handlers' \ {s} = handlers \ {s}
              /\ consumers' \ {s} = consumers \ {s}
              /\ \A t \in Subs \ {s} : loopPc'[t] = loopPc[t]]_vars

\* C37: a Subscribe call that fails at consumer creation or at the topic
\* subscription returns an error and leaves the registry as it was before
\* the call: no handler, no consumer and no loop for it.
C37_FailedSubscribeLeavesRegistry ==
    /\ []FailedSubscribeLeavesNothing
    /\ []SubscribeErrorIsReported
    /\ SubscribeKeepsOtherEntries

\* kafka.go registered the handler, consumer.Subscribe failed, the call
\* returned; another subscription is still registered
C37_Witness ==
    \E s \in Subs :
        /\ subImpl[s] = "kafka"
        /\ subPc[s] = "returned"
        /\ subErr[s] = ErrSubscribeTopic
        /\ s \in closedConsumers
        /\ \E t \in Subs \ {s} : t \in handlers /\ t \in consumers

\* the payloads of a sequence of kafka messages
PayloadsOf(msgs) == [i \in 1..Len(msgs) |-> msgs[i].value]

\* the index of the first failing Produce of the call, 0 if none fails
FirstFailure(call) ==
    IF call.failAt \in 1..Len(call.messages) THEN call.failAt ELSE 0

\* the messages were handed to Produce in slice order, without a gap
AttemptedInSliceOrder ==
    batchCall.called =>
        PayloadsOf(batchCall.attempted) =
            SubSeq(batchCall.messages, 1, Len(batchCall.attempted))

\* without a failure every message is accepted and nil is returned
BatchWithoutFailure ==
    (batchCall.called /\ FirstFailure(batchCall) = 0) =>
        /\ batchCall.err = NilErr
        /\ Len(batchCall.attempted) = Len(batchCall.messages)
        /\ producerQueue = batchCall.before \o batchCall.attempted

\* at the first failure the call returns that error, the messages before it
\* stay on the producer's queue, the messages after it are not attempted
BatchStopsAtFirstFailure ==
    (batchCall.called /\ FirstFailure(batchCall) # 0) =>
        /\ batchCall.err = ErrProduce
        /\ Len(batchCall.attempted) = FirstFailure(batchCall)
        /\ producerQueue = batchCall.before \o
               SubSeq(batchCall.attempted, 1, FirstFailure(batchCall) - 1)

Established(s) == subPc[s] = "returned" /\ subErr[s] = NilErr

\* once the signal was handled the root context is cancelled
SignalCancelsContext == wkPc # "waitQuit" => ctxDone

\* when done is closed every established subscription is unsubscribed:
\* its unsubscribe returned, no handler and no consumer is registered
\* for it and its consumer is closed
DoneMeansUnsubscribed ==
    wkPc = "doneClosed" =>
        \A s \in Subs :
            /\ subPc[s] = "returned"
            /\ Established(s) =>
                   /\ unsubPc[s] = "returned"
                   /\ s \notin handlers
                   /\ s \notin consumers
                   /\ s \in closedConsumers

\* after the signal done is eventually closed
ShutdownCompletes == (wkPc # "waitQuit") ~> (wkPc = "doneClosed")

\* C39: after a termination signal the worker cancels the root context,
\* every established subscription is unsubscribed and done is eventually
\* closed, also when a subscription failed or a handler is still running.
C39_WorkerShutdownCompletes ==
    /\ []SignalCancelsContext
    /\ []DoneMeansUnsubscribed
    /\ ShutdownCompletes

\* done is closed although one subscription failed to establish and the
\* handler of the other one is still running
C39_Witness ==
    /\ wkPc = "doneClosed"
    /\ \E s \in Subs :
          /\ subErr[s] # NilErr
          /\ \E t \in Subs \ {s} :
                /\ Established(t)
                /\ loopPc[t] = "handler"

====
